---- MODULE Spec2Model ----
(***************************************************************************)
(* govm: a Go version manager.  The model covers the catalog fetch, the    *)
(* version resolver of the command line, the installer, the shim based     *)
(* activator, the remover and the Update loop of the terminal UI.          *)
(*                                                                         *)
(* Strings are sequences of one-character strings, so that prefix tests,   *)
(* splitting, integer parsing and byte-wise comparison are computed the    *)
(* way the Go standard library computes them.                              *)
(***************************************************************************)
EXTENDS Integers, Sequences, FiniteSets, TLC

VARIABLES
    remote,       \* the release list the catalog endpoint answers with
    ambient,      \* version `go version` reports for the go on PATH (<<>> if none)
    versionsDir,  \* whether ~/.govm/versions exists
    dirs,         \* entries of ~/.govm/versions: name -> directory content
    downloads,    \* file names present in ~/.govm/downloads
    shims,        \* ~/.govm/shim: command name -> path the shim forwards to
    marker,       \* content of ~/.govm/active_version, or NoFile
    out,          \* outcome of the last command-line operation
    ui,           \* the model.Model of the terminal UI
    tasks         \* the tea.Cmd's dispatched by Update whose message is not yet delivered

vars == <<remote, ambient, versionsDir, dirs, downloads, shims, marker, out, ui, tasks>>

----------------------------------------------------------------------------
(* Strings *)

\* The characters used, in increasing byte order (Go compares strings byte-wise).
Chars == <<"+", "-", ".", "0", "1", "2", "3", "4", "5", "6", "7", "8", "9",
           "a", "b", "c", "d", "e", "f", "g", "h", "i", "j", "k", "l", "m",
           "n", "o", "p", "q", "r", "s", "t", "u", "v", "w", "x", "y", "z">>

Ord(c) == CHOOSE i \in 1..Len(Chars) : Chars[i] = c

Digits == {"0", "1", "2", "3", "4", "5", "6", "7", "8", "9"}

DigitVal(c) == Ord(c) - Ord("0")

HasPrefix(s, p) == Len(p) <= Len(s) /\ SubSeq(s, 1, Len(p)) = p

HasSuffix(s, p) == Len(p) <= Len(s) /\ SubSeq(s, Len(s) - Len(p) + 1, Len(s)) = p

TrimPrefix(s, p) == IF HasPrefix(s, p) THEN SubSeq(s, Len(p) + 1, Len(s)) ELSE s

Contains(s, c) == \E i \in 1..Len(s) : s[i] = c

\* strings.Split(s, "."): the pieces between the dots; never empty ("" gives <<"">>).
RECURSIVE SplitFrom(_, _, _)
SplitFrom(s, i, cur) ==
    IF i > Len(s) THEN <<cur>>
    ELSE IF s[i] = "." THEN <<cur>> \o SplitFrom(s, i + 1, <<>>)
    ELSE SplitFrom(s, i + 1, Append(cur, s[i]))

Split(s) == SplitFrom(s, 1, <<>>)

\* The byte-wise order of Go's string comparison: a < b.
RECURSIVE StrLessFrom(_, _, _)
StrLessFrom(a, b, i) ==
    IF i > Len(a) THEN i <= Len(b)
    ELSE IF i > Len(b) THEN FALSE
    ELSE IF a[i] # b[i] THEN Ord(a[i]) < Ord(b[i])
    ELSE StrLessFrom(a, b, i + 1)

StrLess(a, b) == StrLessFrom(a, b, 1)

\* strconv.Atoi with the error dropped (`n, _ := strconv.Atoi(s)`): an optional
\* sign followed by decimal digits gives the number, anything else gives 0.
RECURSIVE DecimalValue(_, _, _)
DecimalValue(s, i, acc) ==
    IF i > Len(s) THEN acc ELSE DecimalValue(s, i + 1, 10 * acc + DigitVal(s[i]))

AllDigits(s) == Len(s) > 0 /\ \A i \in 1..Len(s) : s[i] \in Digits

Atoi(s) ==
    IF AllDigits(s) THEN DecimalValue(s, 1, 0)
    ELSE IF Len(s) > 1 /\ s[1] = "+" /\ AllDigits(Tail(s)) THEN DecimalValue(Tail(s), 1, 0)
    ELSE IF Len(s) > 1 /\ s[1] = "-" /\ AllDigits(Tail(s)) THEN 0 - DecimalValue(Tail(s), 1, 0)
    ELSE 0

----------------------------------------------------------------------------
(* Data *)

\* runtime.GOOS and runtime.GOARCH of the host the model runs on.
GOOS == "linux"

GOARCH == "amd64"

\* var goBinary = "go", replaced by "go.exe" on windows.
goBinary == IF GOOS = "windows" THEN <<"g", "o", ".", "e", "x", "e">> ELSE <<"g", "o">>

GoPrefix == <<"g", "o">>

NoFile == <<"NoFile">>

\* filepath.Join(homeDir, ".govm", "versions", name): the components below ~/.govm.
VersionPath(name) == <<"versions", name>>

\* The zero value utils.GoVersion{}.
ZeroVersion ==
    [Version |-> <<>>, Filename |-> <<>>, URL |-> <<>>, Installed |-> FALSE,
     Active |-> FALSE, Path |-> <<>>, Stable |-> FALSE]

\* The fields of model.Model that Update reads, before the program has started.
UiOff ==
    [state |-> "off", Versions |-> <<>>, Loading |-> FALSE, CurrentTab |-> 0,
     ConfirmingDelete |-> FALSE, DeleteVersion |-> <<>>, Err |-> FALSE]

\* os.Stat(filepath.Join(goVersionsDir, name)) succeeds.
DirExists(name) == versionsDir /\ name \in DOMAIN dirs

\* os.Stat(filepath.Join(goVersionsDir, name, "bin", goBinary)) succeeds.
BinaryExists(name) == DirExists(name) /\ dirs[name].bin /\ goBinary \in dirs[name].files

\* os.ReadDir returns the entries sorted by file name.
RECURSIVE SortNames(_)
SortNames(S) ==
    IF S = {} THEN <<>>
    ELSE LET m == CHOOSE x \in S : \A y \in S \ {x} : StrLess(x, y)
         IN  <<m>> \o SortNames(S \ {m})

ReadDir == SortNames(DOMAIN dirs)

----------------------------------------------------------------------------
(* Catalog fetch *)

\* A comparator that only compares the strings.
SortLessLexical(a, b) == StrLess(b, a)

\* The comparator handed to sort.Slice: whether version a sorts before version b.
SortLess(a, b) ==
    LET iParts == Split(a)
        jParts == Split(b)
    IN  IF Len(iParts) > 0 /\ Len(jParts) > 0 /\ Atoi(iParts[1]) # Atoi(jParts[1])
        THEN Atoi(iParts[1]) > Atoi(jParts[1])
        ELSE IF Len(iParts) > 1 /\ Len(jParts) > 1 /\ Atoi(iParts[2]) # Atoi(jParts[2])
        THEN Atoi(iParts[2]) > Atoi(jParts[2])
        ELSE IF Len(iParts) > 2 /\ Len(jParts) > 2
        THEN Atoi(iParts[3]) > Atoi(jParts[3])
        ELSE StrLess(b, a)

\* sort.Slice on fewer than 12 elements is an insertion sort: element i is
\* swapped downwards while the comparator puts it before its left neighbour.
RECURSIVE SinkDown(_, _)
SinkDown(s, j) ==
    IF j > 1 /\ SortLess(s[j].Version, s[j - 1].Version)
    THEN SinkDown([s EXCEPT ![j] = s[j - 1], ![j - 1] = s[j]], j - 1)
    ELSE s

RECURSIVE InsertionSortFrom(_, _)
InsertionSortFrom(s, i) ==
    IF i > Len(s) THEN s ELSE InsertionSortFrom(SinkDown(s, i), i + 1)

SortSlice(s) == InsertionSortFrom(s, 2)

\* Every "go"-prefixed directory, whatever it holds.
InstalledNamesAnyDir == {n \in DOMAIN dirs : HasPrefix(n, GoPrefix)}

\* installedVersions: version -> path of every "go"-prefixed directory that
\* holds bin/<goBinary>.
InstalledNames == {n \in DOMAIN dirs : HasPrefix(n, GoPrefix) /\ BinaryExists(n)}

InstalledVersionsMap ==
    [v \in {TrimPrefix(n, GoPrefix) : n \in InstalledNames} |->
        VersionPath(CHOOSE n \in InstalledNames : TrimPrefix(n, GoPrefix) = v)]

\* An active version that asks the go on PATH first.
ActiveVersionAmbientFirst == IF ambient # <<>> THEN ambient ELSE marker

\* activeVersion: the marker when it can be read, else GetCurrentGoVersion().
ActiveVersion == IF marker # NoFile THEN marker ELSE ambient

\* A file search that is content with the host's operating system.
RECURSIVE FirstHostFileAnyArch(_, _)
FirstHostFileAnyArch(files, i) ==
    IF i > Len(files) THEN 0
    ELSE IF files[i].OS = GOOS THEN i
    ELSE FirstHostFileAnyArch(files, i + 1)

\* The record of one release: its first file for the host, if it has one.
RECURSIVE FirstHostFile(_, _)
FirstHostFile(files, i) ==
    IF i > Len(files) THEN 0
    ELSE IF files[i].OS = GOOS /\ files[i].Arch = GOARCH THEN i
    ELSE FirstHostFile(files, i + 1)

ReleaseRecord(release) ==
    LET version == TrimPrefix(release.Version, GoPrefix)
        k == FirstHostFile(release.Files, 1)
        installed == version \in DOMAIN InstalledVersionsMap
    IN  IF k = 0 THEN <<>>
        ELSE <<[Version |-> version,
                Filename |-> release.Files[k].Filename,
                URL |-> <<"https://go.dev/dl/">> \o release.Files[k].Filename,
                Installed |-> installed,
                Active |-> (ActiveVersion = version),
                Path |-> IF installed THEN InstalledVersionsMap[version] ELSE <<>>,
                Stable |-> release.Stable]>>

RECURSIVE ReleaseRecords(_, _)
ReleaseRecords(releases, i) ==
    IF i > Len(releases) THEN <<>>
    ELSE ReleaseRecord(releases[i]) \o ReleaseRecords(releases, i + 1)

\* FetchGoVersions as a function of the disk and of what its environment does:
\* net is "ok" (status 200, the catalog as body), "down" (client.Get fails),
\* "status" (the catalog comes with a status other than 200: resp.StatusCode
\* is never read), "read" (the body cannot be read), "garbage" (the body is
\* not a JSON list), "home" (os.UserHomeDir fails) or "mkdir" (os.MkdirAll
\* fails, which it cannot when the directory exists).  The disk is read after
\* os.MkdirAll(goVersionsDir), which FetchEffect models.
FetchGoVersions(net) ==
    IF net = "down" THEN [kind |-> "ErrMsg", err |-> "connect"]
    ELSE IF net = "read" THEN [kind |-> "ErrMsg", err |-> "read"]
    ELSE IF net = "garbage" THEN [kind |-> "ErrMsg", err |-> "parse"]
    ELSE IF net = "home" THEN [kind |-> "ErrMsg", err |-> "home"]
    ELSE IF net = "mkdir" /\ ~versionsDir THEN [kind |-> "ErrMsg", err |-> "mkdir"]
    ELSE [kind |-> "VersionsMsg", versions |-> SortSlice(ReleaseRecords(remote, 1))]

FetchEffect(net) ==
    versionsDir' = (versionsDir \/ FetchGoVersions(net).kind = "VersionsMsg")

----------------------------------------------------------------------------
(* Version resolver of the command line *)

\* compareVersions(v1, v2): -1, 0 or 1.
RECURSIVE ComparePartsFrom(_, _, _)
ComparePartsFrom(parts1, parts2, i) ==
    IF i > Len(parts1) \/ i > Len(parts2)
    THEN IF Len(parts1) < Len(parts2) THEN -1
         ELSE IF Len(parts1) > Len(parts2) THEN 1
         ELSE 0
    ELSE IF Atoi(parts1[i]) < Atoi(parts2[i]) THEN -1
    ELSE IF Atoi(parts1[i]) > Atoi(parts2[i]) THEN 1
    ELSE ComparePartsFrom(parts1, parts2, i + 1)

\* A comparison of the version strings byte by byte instead of by components.
compareVersionsLexical(v1, v2) ==
    IF StrLess(v1, v2) THEN -1 ELSE IF StrLess(v2, v1) THEN 1 ELSE 0

compareVersions(v1, v2) == ComparePartsFrom(Split(v1), Split(v2), 1)

Found(v) == [kind |-> "ok", version |-> v]

Failed(e) == [kind |-> "err", err |-> e]

\* An exact pass that never matches.
ExactMatchSkipped(versions, version, i) == 0

\* The exact pass over the catalog: the first record whose version is the token.
RECURSIVE ExactMatch(_, _, _)
ExactMatch(versions, version, i) ==
    IF i > Len(versions) THEN 0
    ELSE IF versions[i].Version = version THEN i
    ELSE ExactMatch(versions, version, i + 1)

\* One prefix pass: acc is <<found, matchedVersion>>, cands the records in order.
RECURSIVE PrefixPass(_, _, _, _)
PrefixPass(cands, prefix, i, acc) ==
    IF i > Len(cands) THEN acc
    ELSE IF HasPrefix(cands[i].key, prefix)
            /\ (~acc[1] \/ compareVersions(cands[i].rec.Version, acc[2].Version) > 0)
    THEN PrefixPass(cands, prefix, i + 1, <<TRUE, cands[i].rec>>)
    ELSE PrefixPass(cands, prefix, i + 1, acc)

\* Prefix passes that match on the token without the separating dot.
ResolvePrefixNoDot(cands, version, prefix, notFound) ==
    LET first == PrefixPass(cands, SubSeq(prefix, 1, Len(prefix) - 1), 1,
                            <<FALSE, ZeroVersion>>)
    IN  IF first[1] THEN Found(first[2]) ELSE Failed(notFound)

\* The two prefix passes and the final outcome, shared by both resolvers.
ResolvePrefix(cands, version, prefix, notFound) ==
    LET first == PrefixPass(cands, prefix, 1, <<FALSE, ZeroVersion>>)
        second == IF ~first[1] /\ ~Contains(version, ".")
                  THEN PrefixPass(cands, prefix, 1, first)
                  ELSE first
    IN  IF second[1] THEN Found(second[2]) ELSE Failed(notFound)

CatalogCands(versions) ==
    [i \in 1..Len(versions) |-> [key |-> versions[i].Version, rec |-> versions[i]]]

\* findMatchingVersion(version), msg being what utils.FetchGoVersions() returned.
findMatchingVersion(version, msg) ==
    IF msg.kind # "VersionsMsg" THEN Failed("fetch")
    ELSE LET k == ExactMatch(msg.versions, version, 1)
         IN  IF k # 0 THEN Found(msg.versions[k])
             ELSE ResolvePrefix(CatalogCands(msg.versions), version,
                                version \o <<".">>, "notfound")

InstalledRecord(name) ==
    [ZeroVersion EXCEPT !.Version = TrimPrefix(name, GoPrefix),
                        !.Path = VersionPath(name),
                        !.Installed = TRUE]

InstalledCands ==
    [i \in 1..Len(ReadDir) |-> [key |-> ReadDir[i], rec |-> InstalledRecord(ReadDir[i])]]

\* findInstalledVersion(version).
findInstalledVersion(version) ==
    IF DirExists(GoPrefix \o version)
    THEN Found([ZeroVersion EXCEPT !.Version = version,
                                   !.Path = VersionPath(GoPrefix \o version),
                                   !.Installed = TRUE])
    ELSE IF ~versionsDir THEN Failed("readdir")
    ELSE ResolvePrefix(InstalledCands, version, GoPrefix \o version \o <<".">>,
                       "notfound")

----------------------------------------------------------------------------
(* Activator: SwitchVersion *)

\* strings.Trim(s, cutset): s without its leading and trailing characters that
\* occur in cutset.
RECURSIVE TrimLeft(_, _)
TrimLeft(s, cutset) ==
    IF Len(s) > 0 /\ s[1] \in cutset THEN TrimLeft(Tail(s), cutset) ELSE s

RECURSIVE TrimRight(_, _)
TrimRight(s, cutset) ==
    IF Len(s) > 0 /\ s[Len(s)] \in cutset
    THEN TrimRight(SubSeq(s, 1, Len(s) - 1), cutset)
    ELSE s

Trim(s, cutset) == TrimRight(TrimLeft(s, cutset), cutset)

\* binName := strings.Trim(entry.Name(), ".exe")
BinName(entry) == Trim(entry, {".", "e", "x"})

\* The directory name a record's Path points at (<<>> for the empty path).
PathName(path) == IF Len(path) = 2 THEN path[2] ELSE <<>>

\* os.Stat(filepath.Join(version.Path, "bin")) succeeds.
BinDirExists(path) == Len(path) = 2 /\ DirExists(path[2]) /\ dirs[path[2]].bin

\* targetBin := filepath.Join(versionBinDir, binName)
TargetBin(path, binName) == path \o <<"bin", binName>>

\* The shim directory after the loop has handled entries[1..k]: for each one the
\* old shim of that command name is removed and a new one written.
RECURSIVE WriteShims(_, _, _, _)
WriteShims(sh, path, entries, k) ==
    IF k = 0 THEN sh
    ELSE LET before == WriteShims(sh, path, entries, k - 1)
             binName == BinName(entries[k])
         IN  [c \in DOMAIN before \cup {binName} |->
                 IF c = binName THEN TargetBin(path, binName) ELSE before[c]]

\* The shim directory when the write of entry k fails: entries before k are
\* repointed and the old shim of entry k is already removed.
ShimsWriteFailed(sh, path, entries, k) ==
    LET before == WriteShims(sh, path, entries, k - 1)
    IN  [c \in DOMAIN before \ {BinName(entries[k])} |-> before[c]]

\* A write that appends to the marker instead of replacing it.
MarkerAppended(version) ==
    IF marker = NoFile THEN version.Version ELSE marker \o version.Version

\* os.WriteFile(versionFile, []byte(version.Version), 0644): the marker's
\* content after a write that succeeded.
MarkerWritten(version) == version.Version

\* A switch that writes the marker before it looks for the bin directory.
SwitchVersionMarkerFirst(version, fault) ==
    [msg |-> [kind |-> "ErrMsg", err |-> "bindir"], shims |-> shims,
     marker |-> MarkerWritten(version)]

\* SwitchVersion(version)(), fault naming the step the file system refuses:
\* kind "none", or "setup", "write", "chmod" (of entry at), "marker" (the
\* marker cannot be opened) or "markerwrite" (os.WriteFile has opened and
\* truncated the marker and fails after `written` bytes of the version).
SwitchVersion(version, fault) ==
    LET entries == IF BinDirExists(version.Path)
                   THEN SortNames(dirs[PathName(version.Path)].files)
                   ELSE <<>>
        n == Len(entries)
    IN  IF fault.kind = "setup"
        THEN [msg |-> [kind |-> "ErrMsg", err |-> "setup"], shims |-> shims, marker |-> marker]
        ELSE IF ~BinDirExists(version.Path)
        THEN [msg |-> [kind |-> "ErrMsg", err |-> "bindir"], shims |-> shims, marker |-> marker]
        ELSE IF fault.kind = "write" /\ fault.at \in 1..n
        THEN [msg |-> [kind |-> "ErrMsg", err |-> "shim", name |-> BinName(entries[fault.at])],
              shims |-> ShimsWriteFailed(shims, version.Path, entries, fault.at),
              marker |-> marker]
        ELSE IF fault.kind = "chmod" /\ fault.at \in 1..n
        THEN [msg |-> [kind |-> "ErrMsg", err |-> "chmod"],
              shims |-> WriteShims(shims, version.Path, entries, fault.at),
              marker |-> marker]
        ELSE IF fault.kind = "marker"
        THEN [msg |-> [kind |-> "ErrMsg", err |-> "marker"],
              shims |-> WriteShims(shims, version.Path, entries, n),
              marker |-> marker]
        ELSE IF fault.kind = "markerwrite"
        THEN [msg |-> [kind |-> "ErrMsg", err |-> "marker"],
              shims |-> WriteShims(shims, version.Path, entries, n),
              marker |-> SubSeq(MarkerWritten(version), 1, fault.written)]
        ELSE [msg |-> [kind |-> "SwitchCompletedMsg", Version |-> version.Version],
              shims |-> WriteShims(shims, version.Path, entries, n),
              marker |-> MarkerWritten(version)]

----------------------------------------------------------------------------
(* Remover: DeleteVersion *)

\* os.RemoveAll(path) that removed everything.
RemoveDir(ds, name) == [n \in DOMAIN ds \ {name} |-> ds[n]]

\* os.RemoveAll(path) that returned an error: the directory stays, with the
\* files it could not remove.
RemoveDirPartly(ds, name, kept) ==
    [ds EXCEPT ![name] = [bin |-> ds[name].bin, files |-> ds[name].files \cap kept]]

\* A removal that tests Active before Installed.
DeleteVersionActiveFirst(version, rm) ==
    IF version.Active
    THEN [msg |-> [kind |-> "ErrMsg", err |-> "active"], dirs |-> dirs]
    ELSE IF ~version.Installed
    THEN [msg |-> [kind |-> "ErrMsg", err |-> "notinstalled"], dirs |-> dirs]
    ELSE [msg |-> [kind |-> "DeleteCompleteMsg", Version |-> version.Version],
          dirs |-> RemoveDir(dirs, version.Path[2])]

\* DeleteVersion(version)(); rm is "ok", or "fail" with the files that survive.
DeleteVersion(version, rm) ==
    IF ~version.Installed
    THEN [msg |-> [kind |-> "ErrMsg", err |-> "notinstalled"], dirs |-> dirs]
    ELSE IF version.Active
    THEN [msg |-> [kind |-> "ErrMsg", err |-> "active"], dirs |-> dirs]
    ELSE IF ~(Len(version.Path) = 2 /\ DirExists(version.Path[2]))
    THEN [msg |-> [kind |-> "DeleteCompleteMsg", Version |-> version.Version], dirs |-> dirs]
    ELSE IF rm.kind = "fail"
    THEN [msg |-> [kind |-> "ErrMsg", err |-> "remove"],
          dirs |-> RemoveDirPartly(dirs, version.Path[2], rm.kept)]
    ELSE [msg |-> [kind |-> "DeleteCompleteMsg", Version |-> version.Version],
          dirs |-> RemoveDir(dirs, version.Path[2])]

----------------------------------------------------------------------------
(* Installer: DownloadAndInstall *)

GodocCmd == <<"g", "o", "d", "o", "c">>

V1_12_17 == <<"1", ".", "1", "2", ".", "1", "7">>

\* What the release archives hold: one top-level directory "go" whose bin/ has
\* go and gofmt, and godoc as well in the releases before 1.13.
ArchiveDir == <<"g", "o">>

ArchiveBin(version) ==
    IF version = V1_12_17
    THEN {<<"g", "o">>, <<"g", "o", "f", "m", "t">>, GodocCmd}
    ELSE {<<"g", "o">>, <<"g", "o", "f", "m", "t">>}

\* tar -xzf / Expand-Archive into the versions root: the archive's directory is
\* created, or merged into a directory of that name left by an earlier run.
Extract(ds, files) ==
    [n \in DOMAIN ds \cup {ArchiveDir} |->
        IF n = ArchiveDir
        THEN [bin |-> TRUE,
              files |-> files \cup (IF n \in DOMAIN ds THEN ds[n].files ELSE {})]
        ELSE ds[n]]

HasBinaryIn(ds, name) == name \in DOMAIN ds /\ ds[name].bin /\ goBinary \in ds[name].files

\* The first entry, in directory order, that is "go"-prefixed and holds the binary.
RECURSIVE FirstWithBinary(_, _, _)
FirstWithBinary(ds, entries, i) ==
    IF i > Len(entries) THEN <<>>
    ELSE IF HasPrefix(entries[i], GoPrefix) /\ HasBinaryIn(ds, entries[i])
    THEN <<entries[i]>>
    ELSE FirstWithBinary(ds, entries, i + 1)

\* os.Rename(sourcePath, versionDir)
Rename(ds, from, to) ==
    [n \in (DOMAIN ds \ {from}) \cup {to} |-> IF n = to THEN ds[from] ELSE ds[n]]

\* A format test that lets every file name through.
SupportedArchiveAny(filename) == TRUE

\* strings.HasSuffix(version.Filename, ".zip") on Windows, ".tar.gz" elsewhere.
SupportedArchive(filename) ==
    IF GOOS = "windows" THEN HasSuffix(filename, <<".", "z", "i", "p">>)
    ELSE HasSuffix(filename, <<".", "t", "a", "r", ".", "g", "z">>)

InstallErr(e, ds, dl) ==
    [msg |-> [kind |-> "ErrMsg", err |-> e], dirs |-> ds, downloads |-> dl,
     versionsDir |-> (versionsDir \/ e # "mkdir")]

\* An installer that leaves the archive where it is.
CleanupDownloadSkipped(version, fault, dl) == dl

\* os.Remove(downloadPath) after the verification; its failure is only printed.
CleanupDownload(version, fault, dl) ==
    IF fault.kind = "rmarchive" THEN dl ELSE dl \ {version.Filename}

\* The steps after a successful extraction: layout normalisation, verification
\* and removal of the archive.
InstallAfterExtract(version, fault, ds, dl) ==
    LET versionDir == GoPrefix \o version.Version
        src == IF HasBinaryIn(ds, versionDir) THEN <<>>
               ELSE FirstWithBinary(ds, SortNames(DOMAIN ds), 1)
        moved == IF src # <<>> /\ src[1] # versionDir
                 THEN Rename(ds, src[1], versionDir)
                 ELSE ds
    IN  IF src # <<>> /\ src[1] # versionDir /\ fault.kind = "rename"
        THEN InstallErr("rename", ds, dl)
        ELSE IF ~HasBinaryIn(moved, versionDir)
        THEN InstallErr("notfound", moved, dl)
        ELSE IF fault.kind = "verify"
        THEN InstallErr("verify", moved, dl)
        ELSE [msg |-> [kind |-> "DownloadCompleteMsg", Version |-> version.Version,
                       Path |-> VersionPath(versionDir)],
              dirs |-> moved,
              downloads |-> CleanupDownload(version, fault, dl),
              versionsDir |-> TRUE]

\* An installer that does not look at the number of bytes copied.
ZeroBytesAccepted(fault) == FALSE

\* written == 0 after io.Copy returned no error.
ZeroBytes(fault) == fault.kind = "empty"

\* DownloadAndInstall(version)(), fault naming the step that fails: "none",
\* "mkdir", "rmversion" (kept: the files that survive), "rmdownload", "http",
\* "create", "copy", "empty" (zero bytes transferred), "extract" (kept: the
\* files already unpacked), "nobinary" (the archive holds no bin/<goBinary>),
\* "rename", "verify", "rmarchive".
DownloadAndInstall(version, fault) ==
    LET versionDir == GoPrefix \o version.Version
        cleaned == IF versionDir \in DOMAIN dirs THEN RemoveDir(dirs, versionDir) ELSE dirs
        fetched == downloads \cup {version.Filename}
    IN  IF fault.kind = "mkdir" THEN InstallErr("mkdir", dirs, downloads)
        ELSE IF versionDir \in DOMAIN dirs /\ fault.kind = "rmversion"
        THEN InstallErr("rmversion", RemoveDirPartly(dirs, versionDir, fault.kept), downloads)
        ELSE IF version.Filename \in downloads /\ fault.kind = "rmdownload"
        THEN InstallErr("rmdownload", cleaned, downloads)
        ELSE IF fault.kind = "http"
        THEN InstallErr("http", cleaned, downloads \ {version.Filename})
        ELSE IF fault.kind = "create"
        THEN InstallErr("create", cleaned, downloads \ {version.Filename})
        ELSE IF fault.kind = "copy" THEN InstallErr("copy", cleaned, fetched)
        ELSE IF ZeroBytes(fault) THEN InstallErr("empty", cleaned, fetched)
        ELSE IF ~SupportedArchive(version.Filename)
        THEN InstallErr("format", cleaned, fetched)
        ELSE IF fault.kind = "extract"
        THEN InstallErr("extract",
                        Extract(cleaned, ArchiveBin(version.Version) \cap fault.kept),
                        fetched)
        ELSE InstallAfterExtract(version, fault,
                Extract(cleaned,
                        IF fault.kind = "nobinary"
                        THEN ArchiveBin(version.Version) \ {goBinary}
                        ELSE ArchiveBin(version.Version)),
                fetched)

----------------------------------------------------------------------------
(* Terminal UI: Model.Update *)

\* A dispatched tea.Cmd: it runs in its own goroutine, then its message waits
\* for Update.
Task(cmd, arg) == [cmd |-> cmd, arg |-> arg, done |-> FALSE, msg |-> [kind |-> "none"]]

RemoveAt(q, i) == SubSeq(q, 1, i - 1) \o SubSeq(q, i + 1, Len(q))

\* for _, v := range m.Versions { if v.Version == name && v.Installed == installed
RECURSIVE FirstRecord(_, _, _, _)
FirstRecord(versions, name, installed, i) ==
    IF i > Len(versions) THEN 0
    ELSE IF versions[i].Version = name /\ versions[i].Installed = installed THEN i
    ELSE FirstRecord(versions, name, installed, i + 1)

\* for _, v := range m.Versions { if v.Version == m.DeleteVersion
RECURSIVE FirstNamed(_, _, _)
FirstNamed(versions, name, i) ==
    IF i > Len(versions) THEN 0
    ELSE IF versions[i].Version = name THEN i
    ELSE FirstNamed(versions, name, i + 1)

\* m.List.SelectedItem().(styles.Item) panics when the list has no item.
Crashed == [UiOff EXCEPT !.state = "crashed"]

\* The model as main builds it; Init dispatches FetchGoVersions.
UiStart == [UiOff EXCEPT !.state = "running", !.Loading = TRUE]

\* case "i"
UpdateKeyI(m, sel) ==
    IF m.CurrentTab # 0 THEN [model |-> m, cmd |-> <<>>]
    ELSE IF Len(m.Versions) = 0 THEN [model |-> Crashed, cmd |-> <<>>]
    ELSE LET k == FirstRecord(m.Versions, m.Versions[sel].Version, FALSE, 1)
         IN  IF k = 0 THEN [model |-> m, cmd |-> <<>>]
             ELSE [model |-> [m EXCEPT !.Loading = TRUE],
                   cmd |-> <<Task("DownloadAndInstall", m.Versions[k])>>]

\* case "u"
UpdateKeyU(m, sel) ==
    IF m.CurrentTab # 0 THEN [model |-> m, cmd |-> <<>>]
    ELSE IF Len(m.Versions) = 0 THEN [model |-> Crashed, cmd |-> <<>>]
    ELSE LET k == FirstRecord(m.Versions, m.Versions[sel].Version, TRUE, 1)
         IN  IF k = 0 THEN [model |-> m, cmd |-> <<>>]
             ELSE [model |-> [m EXCEPT !.Loading = TRUE],
                   cmd |-> <<Task("SwitchVersion", m.Versions[k])>>]

\* case "r"
UpdateKeyR(m) ==
    [model |-> [m EXCEPT !.Loading = TRUE], cmd |-> <<Task("FetchGoVersions", ZeroVersion)>>]

\* case "d"
UpdateKeyD(m, sel) ==
    IF Len(m.Versions) = 0 THEN [model |-> Crashed, cmd |-> <<>>]
    ELSE LET k == FirstRecord(m.Versions, m.Versions[sel].Version, TRUE, 1)
         IN  IF k # 0 /\ m.Versions[k].Active
             THEN [model |-> m, cmd |-> <<>>]
             ELSE IF k # 0
             THEN [model |-> [m EXCEPT !.ConfirmingDelete = TRUE,
                                       !.DeleteVersion = m.Versions[k].Version],
                   cmd |-> <<>>]
             ELSE IF m.CurrentTab = 0
             THEN [model |-> m, cmd |-> <<>>]
             ELSE [model |-> m, cmd |-> <<>>]

\* A "y" that does not ask whether a delete awaits confirmation.
UpdateKeyYUnconfirmed(m) ==
    LET k == FirstNamed(m.Versions, m.DeleteVersion, 1)
    IN  [model |-> [m EXCEPT !.ConfirmingDelete = FALSE, !.Loading = TRUE],
         cmd |-> <<Task("DeleteVersion", IF k = 0 THEN ZeroVersion ELSE m.Versions[k])>>]

\* case "y", "Y"
UpdateKeyY(m) ==
    IF ~m.ConfirmingDelete THEN [model |-> m, cmd |-> <<>>]
    ELSE LET k == FirstNamed(m.Versions, m.DeleteVersion, 1)
         IN  [model |-> [m EXCEPT !.ConfirmingDelete = FALSE, !.Loading = TRUE],
              cmd |-> <<Task("DeleteVersion",
                             IF k = 0 THEN ZeroVersion ELSE m.Versions[k])>>]

\* case "n", "N"
UpdateKeyN(m) ==
    IF ~m.ConfirmingDelete THEN [model |-> m, cmd |-> <<>>]
    ELSE [model |-> [m EXCEPT !.ConfirmingDelete = FALSE, !.DeleteVersion = <<>>],
          cmd |-> <<>>]

\* case "tab"
UpdateKeyTab(m) == [m EXCEPT !.CurrentTab = (m.CurrentTab + 1) % 2]

\* case utils.ErrMsg
UpdateErrMsg(m, msg) == [m EXCEPT !.Err = TRUE, !.Loading = FALSE]

\* case utils.VersionsMsg
UpdateVersionsMsg(m, msg) == [m EXCEPT !.Versions = msg.versions, !.Loading = FALSE]

\* case utils.DownloadCompleteMsg
UpdateDownloadCompleteMsg(m, msg) ==
    LET k == FirstNamed(m.Versions, msg.Version, 1)
    IN  [m EXCEPT !.Loading = FALSE,
                  !.Versions = IF k = 0 THEN @
                               ELSE [@ EXCEPT ![k].Installed = TRUE, ![k].Path = msg.Path]]

\* case utils.SwitchCompletedMsg
UpdateSwitchCompletedMsg(m, msg) ==
    [m EXCEPT !.Loading = FALSE,
              !.Versions = [i \in 1..Len(m.Versions) |->
                              [m.Versions[i] EXCEPT
                                  !.Active = (m.Versions[i].Version = msg.Version)]]]

\* case utils.DeleteCompleteMsg
UpdateDeleteCompleteMsg(m, msg) ==
    LET k == FirstNamed(m.Versions, msg.Version, 1)
    IN  [m EXCEPT !.Loading = FALSE,
                  !.Versions = IF k = 0 THEN @
                               ELSE [@ EXCEPT ![k].Installed = FALSE, ![k].Path = <<>>]]

\* Model.View: the error alone once m.Err is set, else the tabs with the list
\* or the table of installed versions.
View(m) ==
    IF m.Err THEN [screen |-> "error"]
    ELSE [screen |-> "tabs", CurrentTab |-> m.CurrentTab, Versions |-> m.Versions,
          Loading |-> m.Loading]

----------------------------------------------------------------------------
(* Inputs: versions, tokens, catalogs and directory contents *)

V1 == <<"1">>

V1_2 == <<"1", ".", "2">>

V1_9_0 == <<"1", ".", "9", ".", "0">>

V1_19_0 == <<"1", ".", "1", "9", ".", "0">>

V1_20_5 == <<"1", ".", "2", "0", ".", "5">>

V1_21 == <<"1", ".", "2", "1">>

V1_21_0 == <<"1", ".", "2", "1", ".", "0">>

V1_21_5 == <<"1", ".", "2", "1", ".", "5">>

V1_21rc1 == <<"1", ".", "2", "1", "r", "c", "1">>

V1_21rc2 == <<"1", ".", "2", "1", "r", "c", "2">>

V1_22_0 == <<"1", ".", "2", "2", ".", "0">>

\* Versions the resolver specification draws its candidates from.
ResolverVersions ==
    {V1_9_0, V1_19_0, V1_20_5, V1_21, V1_21_0, V1_21_5, V1_2, V1_21rc1, V1_21rc2}

\* Tokens typed after `govm install` and `govm use` ("go" already trimmed).
Tokens == {V1, V1_2, V1_21, V1_21_5, <<"1", ".", "9">>, <<"2">>}

\* Largest number of candidates the resolver is run on.
MaxCands == 3

CandSets == {S \in SUBSET ResolverVersions : Cardinality(S) <= MaxCands}

TarGz == <<".", "t", "a", "r", ".", "g", "z">>

\* The release the catalog lists for version v: one file per platform, the
\* host's after another platform's.
ReleaseOf(v) ==
    [Version |-> GoPrefix \o v,
     Stable |-> TRUE,
     Files |-> <<[Filename |-> GoPrefix \o v \o <<".darwin-arm64">> \o TarGz,
                  OS |-> "darwin", Arch |-> "arm64"],
                 [Filename |-> GoPrefix \o v \o <<".linux-amd64">> \o TarGz,
                  OS |-> "linux", Arch |-> "amd64"]>>]

CatalogOf(S) == LET names == SortNames(S) IN [i \in 1..Len(names) |-> ReleaseOf(names[i])]

\* Names of the files a Go release ships in bin/.
GoCmd == <<"g", "o">>

GofmtCmd == <<"g", "o", "f", "m", "t">>

\* A completely extracted version directory.
FullDir(files) == [bin |-> TRUE, files |-> files]

NoDirs == [n \in {} |-> FullDir({})]

NoShims == [c \in {} |-> <<>>]

Idle == [op |-> "none"]

----------------------------------------------------------------------------
(* Specification of one session of the terminal UI on a fresh home directory *)

\* Largest number of commands in flight at once.
MaxInFlight == 2

\* A catalog of two releases, one of which ships a command the other lacks.
TwoReleases == CatalogOf({V1_12_17, V1_21_5})

\* A catalog in which two releases carry the same version once "go" is stripped.
SameVersionTwice == <<ReleaseOf(V1_21_5), [ReleaseOf(V1_21_5) EXCEPT !.Version = V1_21_5]>>

\* What the session starts from: the catalog the endpoint answers with and
\* the version `go version` reports outside govm ("" when there is no go).
Starts ==
    {[remote |-> TwoReleases, ambient |-> V1_21_5],
     [remote |-> SameVersionTwice, ambient |-> <<>>]}

\* The terminal session is explored with a file system that obeys; the steps a
\* file system can refuse are explored from the command line (SpecCLI).
InstallFaults == {[kind |-> "none"]}

SwitchFaults == {[kind |-> "none"]}

RemoveOutcomes == {[kind |-> "ok"]}

Init ==
    /\ \E s \in Starts : remote = s.remote /\ ambient = s.ambient
    /\ versionsDir = FALSE
    /\ dirs = NoDirs
    /\ downloads = {}
    /\ shims = NoShims
    /\ marker = NoFile
    /\ out = Idle
    /\ ui = UiStart
    /\ tasks = <<Task("FetchGoVersions", ZeroVersion)>>

Running == ui.state = "running"

Selectable == IF Len(ui.Versions) = 0 THEN {0} ELSE 1..Len(ui.Versions)

\* Update returned (model, cmd): the model is stored and the command started.
Handle(r) ==
    /\ Len(tasks) + Len(r.cmd) <= MaxInFlight
    /\ ui' = r.model
    /\ tasks' = IF r.model.state = "running" THEN tasks \o r.cmd ELSE <<>>
    /\ UNCHANGED <<remote, ambient, versionsDir, dirs, downloads, shims, marker, out>>

KeyI == Running /\ \E sel \in Selectable : Handle(UpdateKeyI(ui, sel))

KeyU == Running /\ \E sel \in Selectable : Handle(UpdateKeyU(ui, sel))

KeyD == Running /\ \E sel \in Selectable : Handle(UpdateKeyD(ui, sel))

KeyR == Running /\ Handle(UpdateKeyR(ui))

KeyY == Running /\ Handle(UpdateKeyY(ui))

KeyN == Running /\ Handle(UpdateKeyN(ui))

KeyTab == Running /\ Handle([model |-> UpdateKeyTab(ui), cmd |-> <<>>])

\* case "ctrl+c", "q": tea.Quit ends the program and the goroutines with it.
KeyQ == Running /\ Handle([model |-> UiOff, cmd |-> <<>>])

Finish(i, msg) == tasks' = [tasks EXCEPT ![i].done = TRUE, ![i].msg = msg]

Ready(i, cmd) == Running /\ ~tasks[i].done /\ tasks[i].cmd = cmd

RunFetch ==
    \E i \in 1..Len(tasks), net \in {"ok", "down"} :
        /\ Ready(i, "FetchGoVersions")
        /\ Finish(i, FetchGoVersions(net))
        /\ FetchEffect(net)
        /\ UNCHANGED <<remote, ambient, dirs, downloads, shims, marker, out, ui>>

RunInstall ==
    \E i \in 1..Len(tasks), fault \in InstallFaults :
        /\ Ready(i, "DownloadAndInstall")
        /\ LET r == DownloadAndInstall(tasks[i].arg, fault)
           IN  /\ Finish(i, r.msg)
               /\ dirs' = r.dirs
               /\ downloads' = r.downloads
               /\ versionsDir' = r.versionsDir
        /\ UNCHANGED <<remote, ambient, shims, marker, out, ui>>

RunSwitch ==
    \E i \in 1..Len(tasks), fault \in SwitchFaults :
        /\ Ready(i, "SwitchVersion")
        /\ LET r == SwitchVersion(tasks[i].arg, fault)
           IN  /\ Finish(i, r.msg)
               /\ shims' = r.shims
               /\ marker' = r.marker
        /\ UNCHANGED <<remote, ambient, versionsDir, dirs, downloads, out, ui>>

RunDelete ==
    \E i \in 1..Len(tasks), rm \in RemoveOutcomes :
        /\ Ready(i, "DeleteVersion")
        /\ LET r == DeleteVersion(tasks[i].arg, rm)
           IN  /\ Finish(i, r.msg)
               /\ dirs' = r.dirs
        /\ UNCHANGED <<remote, ambient, versionsDir, downloads, shims, marker, out, ui>>

\* The message of command i waits for Update.
Waiting(i, kind) == Running /\ tasks[i].done /\ tasks[i].msg.kind = kind

\* The program hands the message of command i to Update, which returns m.
Receive(i, m) ==
    /\ ui' = m
    /\ tasks' = RemoveAt(tasks, i)
    /\ UNCHANGED <<remote, ambient, versionsDir, dirs, downloads, shims, marker, out>>

DeliverErrMsg ==
    \E i \in 1..Len(tasks) :
        Waiting(i, "ErrMsg") /\ Receive(i, UpdateErrMsg(ui, tasks[i].msg))

DeliverVersionsMsg ==
    \E i \in 1..Len(tasks) :
        Waiting(i, "VersionsMsg") /\ Receive(i, UpdateVersionsMsg(ui, tasks[i].msg))

DeliverDownloadCompleteMsg ==
    \E i \in 1..Len(tasks) :
        Waiting(i, "DownloadCompleteMsg")
            /\ Receive(i, UpdateDownloadCompleteMsg(ui, tasks[i].msg))

DeliverSwitchCompletedMsg ==
    \E i \in 1..Len(tasks) :
        Waiting(i, "SwitchCompletedMsg")
            /\ Receive(i, UpdateSwitchCompletedMsg(ui, tasks[i].msg))

DeliverDeleteCompleteMsg ==
    \E i \in 1..Len(tasks) :
        Waiting(i, "DeleteCompleteMsg")
            /\ Receive(i, UpdateDeleteCompleteMsg(ui, tasks[i].msg))

Next ==
    \/ KeyI \/ KeyU \/ KeyD \/ KeyR \/ KeyY \/ KeyN \/ KeyTab \/ KeyQ
    \/ RunFetch \/ RunInstall \/ RunSwitch \/ RunDelete
    \/ DeliverErrMsg \/ DeliverVersionsMsg \/ DeliverDownloadCompleteMsg
    \/ DeliverSwitchCompletedMsg \/ DeliverDeleteCompleteMsg

Spec == Init /\ [][Next]_vars

----------------------------------------------------------------------------
(* Specification of the resolver on drawn candidate lists *)

InitResolve ==
    /\ \E S \in CandSets, mode \in {"catalog", "installed"} :
        /\ remote = IF mode = "catalog" THEN CatalogOf(S) ELSE <<>>
        /\ dirs = IF mode = "installed"
                  THEN [n \in {GoPrefix \o v : v \in S} |-> FullDir({GoCmd, GofmtCmd})]
                  ELSE NoDirs
        /\ versionsDir \in (IF mode = "installed" /\ S # {} THEN {TRUE} ELSE BOOLEAN)
    /\ ambient = <<>>
    /\ downloads = {}
    /\ shims = NoShims
    /\ marker = NoFile
    /\ out = Idle
    /\ ui = UiOff
    /\ tasks = <<>>

ResolveCatalog ==
    \E t \in Tokens, net \in {"ok", "down"} :
        /\ out' = [op |-> "findMatchingVersion", token |-> t, obtained |-> (net = "ok"),
                   result |-> findMatchingVersion(t, FetchGoVersions(net))]
        /\ FetchEffect(net)
        /\ UNCHANGED <<remote, ambient, dirs, downloads, shims, marker, ui, tasks>>

ResolveInstalled ==
    \E t \in Tokens :
        /\ out' = [op |-> "findInstalledVersion", token |-> t, obtained |-> versionsDir,
                   result |-> findInstalledVersion(t)]
        /\ UNCHANGED <<remote, ambient, versionsDir, dirs, downloads, shims, marker, ui, tasks>>

NextResolve == ResolveCatalog \/ ResolveInstalled

SpecResolve == InitResolve /\ [][NextResolve]_vars

----------------------------------------------------------------------------
(* Specification of the catalog fetch on drawn catalogs and disk states *)

V1_9_9 == <<"1", ".", "9", ".", "9">>

V1_10 == <<"1", ".", "1", "0">>

V1_21_3 == <<"1", ".", "2", "1", ".", "3">>

V1_21_10 == <<"1", ".", "2", "1", ".", "1", "0">>

V2 == <<"2">>

\* Two release candidates of one patch release, both in the full catalog.
V1_8_5rc4 == <<"1", ".", "8", ".", "5", "r", "c", "4">>

V1_8_5rc5 == <<"1", ".", "8", ".", "5", "r", "c", "5">>

\* Versions the drawn catalogs list.
FetchVersions ==
    {V1_21_3, V1_21, V1_9_9, V1_10, V1_21_10, V2, V1_21rc1, V1_8_5rc4, V1_8_5rc5}

\* Largest number of releases in a drawn catalog.
MaxReleases == 3

Range(q) == {q[i] : i \in 1..Len(q)}

\* The sequences of at most n distinct members of S: the endpoint lists the
\* releases in any order.
RECURSIVE Arrangements(_, _)
Arrangements(S, n) ==
    IF n = 0 THEN {<<>>}
    ELSE LET shorter == Arrangements(S, n - 1)
         IN  shorter \cup
             UNION {{Append(q, v) : v \in S \ Range(q)} :
                       q \in {r \in shorter : Len(r) = n - 1}}

FetchCatalogs ==
    {[i \in 1..Len(q) |-> ReleaseOf(q[i])] : q \in Arrangements(FetchVersions, MaxReleases)}

\* Versions with a directory in the drawn versions root, and what such a
\* directory holds: a complete installation, or one whose bin/ has lost the
\* go binary (an os.RemoveAll that failed part-way leaves that).
DiskVersions == {V1_21_3, V1_9_9}

DirStates == {FullDir({GoCmd, GofmtCmd}), FullDir({GofmtCmd})}

FetchDisks == UNION {[{GoPrefix \o v : v \in D} -> DirStates] : D \in SUBSET DiskVersions}

InitFetch ==
    /\ remote \in FetchCatalogs
    /\ dirs \in FetchDisks
    /\ versionsDir \in (IF DOMAIN dirs = {} THEN BOOLEAN ELSE {TRUE})
    /\ marker \in {NoFile} \cup {v \in DiskVersions : GoPrefix \o v \in DOMAIN dirs}
    /\ ambient = V1_21
    /\ downloads = {}
    /\ shims = NoShims
    /\ out = Idle
    /\ ui = UiOff
    /\ tasks = <<>>

Fetch ==
    \E net \in {"ok", "down"} :
        /\ out' = [op |-> "FetchGoVersions", result |-> FetchGoVersions(net)]
        /\ FetchEffect(net)
        /\ UNCHANGED <<remote, ambient, dirs, downloads, shims, marker, ui, tasks>>

NextFetch == Fetch

SpecFetch == InitFetch /\ [][NextFetch]_vars

----------------------------------------------------------------------------
(* Specification of the command line on a fresh home directory *)

\* One line of `govm list`.
RECURSIVE ListLines(_, _, _)
ListLines(entries, activeVersion, i) ==
    IF i > Len(entries) THEN <<>>
    ELSE (IF HasPrefix(entries[i], GoPrefix)
          THEN <<[version |-> TrimPrefix(entries[i], GoPrefix),
                  active |-> (TrimPrefix(entries[i], GoPrefix) = activeVersion)]>>
          ELSE <<>>)
         \o ListLines(entries, activeVersion, i + 1)

\* ListVersions(): the versions it prints.
ListVersions ==
    IF ~versionsDir \/ Len(ReadDir) = 0 THEN <<>>
    ELSE ListLines(ReadDir, IF marker # NoFile THEN marker ELSE <<>>, 1)

CliTokens == {V1, V1_12_17, <<"2">>}

\* The status the process exits with after the command whose outcome is o:
\* InstallVersion, UseVersion and ListVersions print and return nothing,
\* handleCommandLine and main return after them.
ExitStatus(o) == 0

\* Steps of an install the file system may refuse: removing the previous
\* installation (bin/gofmt survives), unpacking (only bin/gofmt is unpacked).
CliInstallFaults ==
    {[kind |-> "none"],
     [kind |-> "rmversion", kept |-> {GofmtCmd}],
     [kind |-> "extract", kept |-> {GofmtCmd}]}

CliSwitchFaults == {[kind |-> "none"], [kind |-> "marker"]}

InitCLI ==
    /\ remote = TwoReleases
    /\ ambient = <<>>
    /\ versionsDir = FALSE
    /\ dirs = NoDirs
    /\ downloads = {}
    /\ shims = NoShims
    /\ marker = NoFile
    /\ out = Idle
    /\ ui = UiOff
    /\ tasks = <<>>

\* govm install <token>
InstallVersion ==
    \E token \in CliTokens, net \in {"ok", "down"}, fault \in CliInstallFaults :
        LET matched == findMatchingVersion(token, FetchGoVersions(net))
            r == DownloadAndInstall(matched.version, fault)
        IN  /\ IF matched.kind # "ok"
               THEN /\ out' = [op |-> "InstallVersion", token |-> token,
                               resolved |-> matched, result |-> [kind |-> "none"]]
                    /\ FetchEffect(net)
                    /\ UNCHANGED <<dirs, downloads>>
               ELSE /\ out' = [op |-> "InstallVersion", token |-> token,
                               resolved |-> matched, result |-> r.msg]
                    /\ dirs' = r.dirs
                    /\ downloads' = r.downloads
                    /\ versionsDir' = r.versionsDir
            /\ UNCHANGED <<remote, ambient, shims, marker, ui, tasks>>

\* govm use <token>
UseVersion ==
    \E token \in CliTokens, fault \in CliSwitchFaults :
        LET matched == findInstalledVersion(token)
            r == SwitchVersion(matched.version, fault)
        IN  /\ IF matched.kind # "ok"
               THEN /\ out' = [op |-> "UseVersion", token |-> token,
                               resolved |-> matched, result |-> [kind |-> "none"]]
                    /\ UNCHANGED <<shims, marker>>
               ELSE /\ out' = [op |-> "UseVersion", token |-> token,
                               resolved |-> matched, result |-> r.msg]
                    /\ shims' = r.shims
                    /\ marker' = r.marker
            /\ UNCHANGED <<remote, ambient, versionsDir, dirs, downloads, ui, tasks>>

\* govm list
List ==
    /\ out' = [op |-> "ListVersions", shown |-> ListVersions]
    /\ UNCHANGED <<remote, ambient, versionsDir, dirs, downloads, shims, marker, ui, tasks>>

NextCLI == InstallVersion \/ UseVersion \/ List

SpecCLI == InitCLI /\ [][NextCLI]_vars

----------------------------------------------------------------------------
(* Specifications of the operations run one after another on a fresh home *)
(* directory, each on a record of a fresh catalog fetch.  SpecActivate    *)
(* lets every step of a switch fail, SpecInstall every step of a catalog  *)
(* fetch, of an install and of a removal.                                 *)

\* What the previous operation was: its name, its version and its outcome.
Last ==
    IF out.op \in {"DownloadAndInstall", "SwitchVersion", "DeleteVersion"}
    THEN [op |-> out.op, Version |-> out.version.Version, kind |-> out.result.kind,
          err |-> IF out.result.kind = "ErrMsg" THEN out.result.err ELSE "none"]
    ELSE [op |-> out.op, Version |-> <<>>, kind |-> "none", err |-> "none"]

\* The records an operation is handed: those of a catalog fetch on this disk.
Records == Range(FetchGoVersions("ok").versions)

\* Lengths at which a failing write of the marker stops: nothing written and
\* "1.21" or "1.12" written.
EmptyWrite == 0

ShortWrite == 4

\* The steps of a switch that may fail; a version's bin/ has two or three entries.
OpsSwitchFaults ==
    {[kind |-> "none"], [kind |-> "setup"], [kind |-> "marker"],
     [kind |-> "markerwrite", written |-> EmptyWrite],
     [kind |-> "markerwrite", written |-> ShortWrite]}
    \cup {[kind |-> k, at |-> i] : k \in {"write", "chmod"}, i \in {1, 2}}

InitActivate ==
    /\ remote = TwoReleases
    /\ ambient = V1_21_5
    /\ versionsDir = FALSE
    /\ dirs = NoDirs
    /\ downloads = {}
    /\ shims = NoShims
    /\ marker = NoFile
    /\ out = Idle
    /\ ui = UiOff
    /\ tasks = <<>>

ActFetch ==
    \E net \in {"ok", "down"} :
        /\ out' = [op |-> "FetchGoVersions", net |-> net, result |-> FetchGoVersions(net),
                   last |-> Last]
        /\ FetchEffect(net)
        /\ UNCHANGED <<remote, ambient, dirs, downloads, shims, marker, ui, tasks>>

ActInstall ==
    \E version \in Records :
        LET r == DownloadAndInstall(version, [kind |-> "none"])
        IN  /\ out' = [op |-> "DownloadAndInstall", version |-> version,
                       fault |-> [kind |-> "none"], result |-> r.msg,
                       last |-> Last]
            /\ dirs' = r.dirs
            /\ downloads' = r.downloads
            /\ versionsDir' = r.versionsDir
            /\ UNCHANGED <<remote, ambient, shims, marker, ui, tasks>>

ActSwitch ==
    \E version \in Records, fault \in OpsSwitchFaults :
        LET r == SwitchVersion(version, fault)
        IN  /\ version.Installed
            /\ out' = [op |-> "SwitchVersion", version |-> version, fault |-> fault,
                       result |-> r.msg, last |-> Last]
            /\ shims' = r.shims
            /\ marker' = r.marker
            /\ UNCHANGED <<remote, ambient, versionsDir, dirs, downloads, ui, tasks>>

ActDelete ==
    \E version \in Records :
        LET r == DeleteVersion(version, [kind |-> "ok"])
        IN  /\ out' = [op |-> "DeleteVersion", version |-> version,
                       fault |-> [kind |-> "ok"], result |-> r.msg,
                       last |-> Last]
            /\ dirs' = r.dirs
            /\ UNCHANGED <<remote, ambient, versionsDir, downloads, shims, marker, ui, tasks>>

ActList ==
    /\ out' = [op |-> "ListVersions", shown |-> ListVersions, last |-> Last]
    /\ UNCHANGED <<remote, ambient, versionsDir, dirs, downloads, shims, marker, ui, tasks>>

NextActivate == ActFetch \/ ActInstall \/ ActSwitch \/ ActDelete \/ ActList

SpecActivate == InitActivate /\ [][NextActivate]_vars

\* What the endpoint and the home directory may do to a catalog fetch.
NetOutcomes == {"ok", "down", "status", "read", "garbage", "home", "mkdir"}

\* The steps of an install that may fail, with the bin/ files that survive a
\* failed removal and the ones unpacked by a failed extraction.
OpsInstallFaults ==
    {[kind |-> "none"], [kind |-> "mkdir"],
     [kind |-> "rmversion", kept |-> {GofmtCmd}], [kind |-> "rmdownload"],
     [kind |-> "http"], [kind |-> "create"], [kind |-> "copy"], [kind |-> "empty"],
     [kind |-> "extract", kept |-> {GofmtCmd}],
     [kind |-> "extract", kept |-> {GoCmd, GodocCmd}],
     [kind |-> "nobinary"], [kind |-> "rename"], [kind |-> "verify"],
     [kind |-> "rmarchive"]}

OpsRemoveOutcomes == {[kind |-> "ok"], [kind |-> "fail", kept |-> {GofmtCmd}]}

InitInstall ==
    /\ remote = TwoReleases
    /\ ambient = <<>>
    /\ versionsDir = FALSE
    /\ dirs = NoDirs
    /\ downloads = {}
    /\ shims = NoShims
    /\ marker = NoFile
    /\ out = Idle
    /\ ui = UiOff
    /\ tasks = <<>>

InsFetch ==
    \E net \in NetOutcomes \ (IF versionsDir THEN {"mkdir"} ELSE {}) :
        /\ out' = [op |-> "FetchGoVersions", net |-> net, result |-> FetchGoVersions(net),
                   last |-> Last]
        /\ FetchEffect(net)
        /\ UNCHANGED <<remote, ambient, dirs, downloads, shims, marker, ui, tasks>>

InsInstall ==
    \E version \in Records, fault \in OpsInstallFaults :
        LET r == DownloadAndInstall(version, fault)
        IN  /\ out' = [op |-> "DownloadAndInstall", version |-> version, fault |-> fault,
                       result |-> r.msg, last |-> Last]
            /\ dirs' = r.dirs
            /\ downloads' = r.downloads
            /\ versionsDir' = r.versionsDir
            /\ UNCHANGED <<remote, ambient, shims, marker, ui, tasks>>

InsDelete ==
    \E version \in Records, rm \in OpsRemoveOutcomes :
        LET r == DeleteVersion(version, rm)
        IN  /\ out' = [op |-> "DeleteVersion", version |-> version, fault |-> rm,
                       result |-> r.msg, last |-> Last]
            /\ dirs' = r.dirs
            /\ UNCHANGED <<remote, ambient, versionsDir, downloads, shims, marker, ui, tasks>>

NextInstall == InsFetch \/ InsInstall \/ InsDelete

SpecInstall == InitInstall /\ [][NextInstall]_vars

----------------------------------------------------------------------------
(* Specification of the README's walk through the commands: install, use,  *)
(* list and delete run one after another, none of them failing, against a  *)
(* catalog of three releases on a home directory with nothing installed.   *)
(* `govm delete` hands DeleteVersion the record a catalog fetch on the     *)
(* disk of that moment gives for the version.                              *)

ThreeReleases == CatalogOf({V1_22_0, V1_21_5, V1_21_0})

ScenarioTokens == {V1_21, V1_21_0, V1_22_0}

\* How far the walk has come: 1 after `install 1.21` on the empty home
\* directory, 2 after `use 1.21`, 3 after `list`, 4 after the refused delete
\* of 1.21.5, 5 after a switch to another version, 6 after the delete of
\* 1.21.5 that went through.
Stage == IF out.op = "none" THEN 0 ELSE out.stage

StageAfter(op, token, result) ==
    LET installed12 == op = "InstallVersion" /\ token = V1_21 /\ dirs = NoDirs
                           /\ result.kind = "DownloadCompleteMsg"
        switched == op = "UseVersion" /\ result.kind = "SwitchCompletedMsg"
        deleting == op = "DeleteVersion" /\ token = V1_21_5
    IN  IF Stage = 0 /\ installed12 THEN 1
        ELSE IF Stage = 1 /\ switched /\ token = V1_21 THEN 2
        ELSE IF Stage = 2 /\ op = "ListVersions" THEN 3
        ELSE IF Stage = 3 /\ deleting /\ result.kind = "ErrMsg" THEN 4
        ELSE IF Stage = 4 /\ switched /\ token # V1_21 THEN 5
        ELSE IF Stage = 5 /\ deleting /\ result.kind = "DeleteCompleteMsg" THEN 6
        ELSE Stage

InitScenario ==
    /\ remote = ThreeReleases
    /\ ambient = V1_12_17
    /\ versionsDir = FALSE
    /\ dirs = NoDirs
    /\ downloads = {}
    /\ shims = NoShims
    /\ marker = NoFile
    /\ out = Idle
    /\ ui = UiOff
    /\ tasks = <<>>

\* govm install <token>
ScnInstall ==
    \E token \in ScenarioTokens :
        LET matched == findMatchingVersion(token, FetchGoVersions("ok"))
            r == DownloadAndInstall(matched.version, [kind |-> "none"])
        IN  /\ matched.kind = "ok"
            /\ out' = [op |-> "InstallVersion", token |-> token, resolved |-> matched,
                       result |-> r.msg,
                       stage |-> StageAfter("InstallVersion", token, r.msg)]
            /\ dirs' = r.dirs
            /\ downloads' = r.downloads
            /\ versionsDir' = r.versionsDir
            /\ UNCHANGED <<remote, ambient, shims, marker, ui, tasks>>

\* govm use <token>
ScnUse ==
    \E token \in ScenarioTokens :
        LET matched == findInstalledVersion(token)
            r == SwitchVersion(matched.version, [kind |-> "none"])
        IN  /\ IF matched.kind # "ok"
               THEN /\ out' = [op |-> "UseVersion", token |-> token, resolved |-> matched,
                               result |-> [kind |-> "none"], stage |-> Stage]
                    /\ UNCHANGED <<shims, marker>>
               ELSE /\ out' = [op |-> "UseVersion", token |-> token, resolved |-> matched,
                               result |-> r.msg,
                               stage |-> StageAfter("UseVersion", token, r.msg)]
                    /\ shims' = r.shims
                    /\ marker' = r.marker
            /\ UNCHANGED <<remote, ambient, versionsDir, dirs, downloads, ui, tasks>>

\* govm list, and the catalog a fetch gives at the same moment
ScnList ==
    /\ out' = [op |-> "ListVersions", token |-> <<>>, shown |-> ListVersions,
               result |-> FetchGoVersions("ok"),
               stage |-> StageAfter("ListVersions", <<>>, [kind |-> "none"])]
    /\ FetchEffect("ok")
    /\ UNCHANGED <<remote, ambient, dirs, downloads, shims, marker, ui, tasks>>

\* govm delete <version>
ScnDelete ==
    \E version \in Records :
        LET r == DeleteVersion(version, [kind |-> "ok"])
        IN  /\ out' = [op |-> "DeleteVersion", token |-> version.Version,
                       resolved |-> [kind |-> "ok", version |-> version],
                       result |-> r.msg,
                       stage |-> StageAfter("DeleteVersion", version.Version, r.msg)]
            /\ dirs' = r.dirs
            /\ UNCHANGED <<remote, ambient, versionsDir, downloads, shims, marker, ui, tasks>>

NextScenario == ScnInstall \/ ScnUse \/ ScnList \/ ScnDelete

SpecScenario == InitScenario /\ [][NextScenario]_vars

----------------------------------------------------------------------------
(* Specification of the catalog fetch and the install on catalogs whose     *)
(* releases differ in the files they list: none for the host, several for  *)
(* the host, one for the host in a format the host does not unpack.        *)

Zip == <<".", "z", "i", "p">>

\* One file of the release of version v.
FileOf(v, os, arch, ext) ==
    [Filename |-> GoPrefix \o v \o <<".", os, "-", arch>> \o ext, OS |-> os, Arch |-> arch]

\* The file lists of the drawn releases of version v: the host's file after
\* another platform's; a file for the host's system on another architecture
\* and one for the host's architecture on another system; two files for the
\* host, the archive first; two files for the host, the archive last.
FileLists(v) ==
    {<<FileOf(v, "darwin", "arm64", TarGz), FileOf(v, "linux", "amd64", TarGz)>>,
     <<FileOf(v, "linux", "arm64", TarGz), FileOf(v, "darwin", "amd64", TarGz)>>,
     <<FileOf(v, "linux", "amd64", TarGz), FileOf(v, "linux", "amd64", Zip)>>,
     <<FileOf(v, "linux", "arm64", TarGz), FileOf(v, "linux", "amd64", Zip),
       FileOf(v, "linux", "amd64", TarGz)>>}

PlatformReleases ==
    {[Version |-> GoPrefix \o v, Stable |-> TRUE, Files |-> files] :
        v \in {V1_21_5}, files \in FileLists(V1_21_5)}
    \cup {[Version |-> GoPrefix \o v, Stable |-> TRUE, Files |-> files] :
        v \in {V1_22_0}, files \in FileLists(V1_22_0)}

\* Largest number of releases in a drawn catalog of such releases.
MaxPlatformReleases == 2

PlatformCatalogs == Arrangements(PlatformReleases, MaxPlatformReleases)

\* The steps of an install that fail here: the download, the extraction.
PlatformFaults ==
    {[kind |-> "none"], [kind |-> "http"], [kind |-> "extract", kept |-> {GofmtCmd}]}

InitPlatform ==
    /\ remote \in PlatformCatalogs
    /\ dirs \in {NoDirs, [n \in {GoPrefix \o V1_21_5} |-> FullDir({GoCmd, GofmtCmd})]}
    /\ versionsDir = (DOMAIN dirs # {})
    /\ ambient = <<>>
    /\ downloads = {}
    /\ shims = NoShims
    /\ marker = NoFile
    /\ out = Idle
    /\ ui = UiOff
    /\ tasks = <<>>

PlatFetch ==
    /\ out' = [op |-> "FetchGoVersions", result |-> FetchGoVersions("ok")]
    /\ FetchEffect("ok")
    /\ UNCHANGED <<remote, ambient, dirs, downloads, shims, marker, ui, tasks>>

PlatInstall ==
    \E version \in Records, fault \in PlatformFaults :
        LET r == DownloadAndInstall(version, fault)
        IN  /\ out' = [op |-> "DownloadAndInstall", version |-> version, fault |-> fault,
                       result |-> r.msg]
            /\ dirs' = r.dirs
            /\ downloads' = r.downloads
            /\ versionsDir' = r.versionsDir
            /\ UNCHANGED <<remote, ambient, shims, marker, ui, tasks>>

NextPlatform == PlatFetch \/ PlatInstall

SpecPlatform == InitPlatform /\ [][NextPlatform]_vars

----------------------------------------------------------------------------
(* Specification of the switch on installations as the release archives of *)
(* the hosts leave them: bin/ holds go and gofmt, named go.exe and         *)
(* gofmt.exe by the Windows archives.  The loop over the entries derives   *)
(* command name and target in the same way on every host.                  *)

Exe == <<".", "e", "x", "e">>

BinListings == {{GoCmd, GofmtCmd}, {GoCmd \o Exe, GofmtCmd \o Exe}}

ShimDisks ==
    UNION {[{GoPrefix \o v : v \in D} -> {FullDir(files) : files \in BinListings}] :
              D \in SUBSET {V1_21_5, V1_22_0}}

InitShims ==
    /\ dirs \in ShimDisks \ {NoDirs}
    /\ remote = <<>>
    /\ ambient = <<>>
    /\ versionsDir = TRUE
    /\ downloads = {}
    /\ shims = NoShims
    /\ marker = NoFile
    /\ out = Idle
    /\ ui = UiOff
    /\ tasks = <<>>

\* SwitchVersion on the record `govm use` makes of an installed directory.
ShimSwitch ==
    \E name \in DOMAIN dirs, fault \in OpsSwitchFaults :
        LET version == InstalledRecord(name)
            r == SwitchVersion(version, fault)
        IN  /\ out' = [op |-> "SwitchVersion", version |-> version, fault |-> fault,
                       result |-> r.msg]
            /\ shims' = r.shims
            /\ marker' = r.marker
            /\ UNCHANGED <<remote, ambient, versionsDir, dirs, downloads, ui, tasks>>

NextShims == ShimSwitch

SpecShims == InitShims /\ [][NextShims]_vars

----------------------------------------------------------------------------
(* Specification of `govm install` with its worker goroutine: the command  *)
(* is run again and again on the home directory the earlier runs have left *)

\* len(spinChars)
SpinChars == 10

\* A select loop that a tick makes return.
AfterTickReturns(o, k) == [o EXCEPT !.pc = "returned", !.spinIdx = k]

\* The select loop after a tick has been received and stepped the spinner to k.
AfterTick(o, k) == [o EXCEPT !.spinIdx = k]

\* The select loop after a message of this kind has arrived on done or on
\* errCh: the outcome is printed and InstallVersion returns.
AfterReceive(o, kind, outcome) ==
    [o EXCEPT !.pc = "returned", !.received = Append(@, kind),
              !.printed = Append(@, outcome)]

InitInstallCmd ==
    /\ remote = TwoReleases
    /\ ambient = <<>>
    /\ versionsDir = FALSE
    /\ dirs = NoDirs
    /\ downloads = {}
    /\ shims = NoShims
    /\ marker = NoFile
    /\ out = Idle
    /\ ui = UiOff
    /\ tasks = <<>>

\* InstallVersion up to the select loop: the version is resolved and, when one
\* is found, the worker goroutine is started.
CmdStart ==
    \E token \in CliTokens, net \in {"ok", "down"} :
        LET matched == findMatchingVersion(token, FetchGoVersions(net))
        IN  /\ (IF out.op = "none" THEN TRUE ELSE out.pc = "returned")
            /\ out' = [op |-> "InstallVersion", token |-> token, resolved |-> matched,
                       pc |-> IF matched.kind = "ok" THEN "loop" ELSE "returned",
                       spinIdx |-> 0, received |-> <<>>,
                       printed |-> IF matched.kind = "ok" THEN <<>> ELSE <<"notfound">>]
            /\ tasks' = IF matched.kind = "ok"
                        THEN <<Task("DownloadAndInstall", matched.version)>>
                        ELSE <<>>
            /\ FetchEffect(net)
            /\ UNCHANGED <<remote, ambient, dirs, downloads, shims, marker, ui>>

\* The goroutine runs utils.DownloadAndInstall(matchedVersion)() and then
\* blocks in its send on done or errCh, both unbuffered.
WorkerRun ==
    \E fault \in CliInstallFaults :
        /\ Len(tasks) = 1 /\ ~tasks[1].done
        /\ LET r == DownloadAndInstall(tasks[1].arg, fault)
           IN  /\ Finish(1, r.msg)
               /\ dirs' = r.dirs
               /\ downloads' = r.downloads
               /\ versionsDir' = r.versionsDir
        /\ UNCHANGED <<remote, ambient, shims, marker, out, ui>>

\* case <-ticker.C
Tick ==
    /\ out.op = "InstallVersion" /\ out.pc = "loop"
    /\ out' = AfterTick(out, (out.spinIdx + 1) % SpinChars)
    /\ UNCHANGED <<remote, ambient, versionsDir, dirs, downloads, shims, marker, ui, tasks>>

\* The worker's send meets the receive of the select loop.
Sending(kind) ==
    /\ out.op = "InstallVersion" /\ out.pc = "loop"
    /\ Len(tasks) = 1 /\ tasks[1].done /\ tasks[1].msg.kind = kind

\* case <-done
ReceiveDone ==
    /\ Sending("DownloadCompleteMsg")
    /\ out' = AfterReceive(out, "DownloadCompleteMsg", "success")
    /\ tasks' = <<>>
    /\ UNCHANGED <<remote, ambient, versionsDir, dirs, downloads, shims, marker, ui>>

\* case err := <-errCh
ReceiveErr ==
    /\ Sending("ErrMsg")
    /\ out' = AfterReceive(out, "ErrMsg", "failure")
    /\ tasks' = <<>>
    /\ UNCHANGED <<remote, ambient, versionsDir, dirs, downloads, shims, marker, ui>>

NextInstallCmd == CmdStart \/ WorkerRun \/ Tick \/ ReceiveDone \/ ReceiveErr

\* A select picks at random among the cases that are ready, and a send that
\* is ready stays ready until it is received: the receive is not starved by
\* the ticks.
SpecInstallCmd ==
    /\ InitInstallCmd
    /\ [][NextInstallCmd]_vars
    /\ WF_vars(ReceiveDone)
    /\ WF_vars(ReceiveErr)

----------------------------------------------------------------------------
(* Properties of the resolver, stated over the outcome recorded in out *)

Resolved == out.op \in {"findMatchingVersion", "findInstalledVersion"}

HostFiles(release) ==
    {i \in 1..Len(release.Files) :
        release.Files[i].OS = GOOS /\ release.Files[i].Arch = GOARCH}

\* The versions the resolver had to choose from: those of the catalog releases
\* with a file for the host, or those of the "go"-prefixed entries of the
\* versions directory; none when the list could not be obtained.
Candidates ==
    IF ~out.obtained THEN {}
    ELSE IF out.op = "findMatchingVersion"
    THEN {TrimPrefix(remote[i].Version, GoPrefix) :
            i \in {j \in 1..Len(remote) : HostFiles(remote[j]) # {}}}
    ELSE {TrimPrefix(n, GoPrefix) : n \in {m \in DOMAIN dirs : HasPrefix(m, GoPrefix)}}

Eligible == {c \in Candidates : HasPrefix(c, out.token \o <<".">>)}

\* One to three components, each a decimal number without a leading zero.
IsNumber(p) == AllDigits(p) /\ (Len(p) = 1 \/ p[1] # "0")

WellFormed(v) ==
    LET parts == Split(v)
    IN  Len(parts) \in 1..3 /\ \A i \in 1..Len(parts) : IsNumber(parts[i])

Nums(v) == LET parts == Split(v) IN [i \in 1..Len(parts) |-> Atoi(parts[i])]

\* Component-wise integer comparison: a is below b at the first component in
\* which they differ, or a is a proper prefix of b.
NumBelow(a, b) ==
    LET x == Nums(a)
        y == Nums(b)
    IN  \E k \in 1..Len(y) :
            /\ \A i \in 1..(k - 1) : i <= Len(x) /\ x[i] = y[i]
            /\ k - 1 <= Len(x)
            /\ (k > Len(x) \/ x[k] < y[k])

\* C3: when no candidate equals the token, a resolved version is one of the
\* candidates that start with token + ".", and no such candidate is greater
\* under component-wise integer comparison; token 1 against 1.19.0, 1.20.5 and
\* 1.9.0 resolves to 1.20.5.
C3_PrefixPicksGreatest ==
    (Resolved /\ out.token \notin Candidates) =>
        /\ out.result.kind = "ok" =>
            /\ out.result.version.Version \in Eligible
            /\ (\A c \in Eligible : WellFormed(c)) =>
                    \A c \in Eligible : ~NumBelow(out.result.version.Version, c)
        /\ (out.token = V1 /\ Candidates = {V1_19_0, V1_20_5, V1_9_0}) =>
            (out.result.kind = "ok" /\ out.result.version.Version = V1_20_5)

C3_Witness ==
    /\ out.op = "findInstalledVersion"
    /\ out.token = V1
    /\ Candidates = {V1_19_0, V1_20_5, V1_9_0}
    /\ out.result.kind = "ok"
    /\ out.result.version.Version = V1_20_5

C5_NotFoundIffNoMatch ==
    Resolved =>
        IF out.token \notin Candidates /\ Eligible = {}
        THEN out.result = Failed("notfound")
        ELSE out.result.kind = "ok" /\ out.result.version.Version \in Candidates

\* C5 amended: the statement holds whenever the candidate list was obtained
\* (the catalog fetch returned a list, the versions directory could be read);
\* when it was not, the outcome is the fetch or read error, never a candidate
\* and never the not-found error.
C5_NotFoundIffNoMatchWhenListed ==
    Resolved =>
        IF ~out.obtained
        THEN out.result \in {Failed("fetch"), Failed("readdir")}
        ELSE IF out.token \notin Candidates /\ Eligible = {}
        THEN out.result = Failed("notfound")
        ELSE out.result.kind = "ok" /\ out.result.version.Version \in Candidates

C5_Witness ==
    /\ Resolved
    /\ out.obtained
    /\ Candidates # {}
    /\ out.token \notin Candidates
    /\ Eligible = {}
    /\ out.result = Failed("notfound")

----------------------------------------------------------------------------
(* Properties of the terminal session *)

\* Command i of the session ran in this step: it was waiting and now carries
\* its message.
Ran(i, cmd) ==
    /\ Len(tasks') = Len(tasks)
    /\ tasks[i].cmd = cmd
    /\ ~tasks[i].done
    /\ tasks'[i].done

\* C1: a delete of the version the active_version marker names returns an
\* error and leaves that version's install directory on disk.
C1_DeleteOfActiveRefused ==
    [][\A i \in 1..Len(tasks) :
          (Ran(i, "DeleteVersion") /\ marker # NoFile /\ tasks[i].arg.Version = marker) =>
              (tasks'[i].msg.kind = "ErrMsg" /\ dirs' = dirs)]_vars

\* The shim forwards to a binary under the bin directory of the version at path.
ForwardsInto(target, path) ==
    Len(target) = Len(path) + 2 /\ SubSeq(target, 1, Len(path) + 1) = path \o <<"bin">>

\* C2: after a successful SwitchVersion to B, which follows a successful
\* SwitchVersion to A, every shim present in the shim directory forwards to a
\* binary under B's bin directory, also when A has a command that B lacks.
C2_ShimsForwardToLastSwitched ==
    [][\A i \in 1..Len(tasks) :
          (Ran(i, "SwitchVersion") /\ tasks'[i].msg.kind = "SwitchCompletedMsg") =>
              \A c \in DOMAIN shims' : ForwardsInto(shims'[c], tasks[i].arg.Path)]_vars

\* The record lists the session holds: the model's list and the lists of the
\* VersionsMsg's waiting for Update.
RecordLists ==
    {ui.Versions} \cup
    {tasks[k].msg.versions :
        k \in {j \in 1..Len(tasks) : tasks[j].done /\ tasks[j].msg.kind = "VersionsMsg"}}

\* C9: in every list returned by a catalog fetch and in the model's version
\* list, a record marked Active is also marked Installed.
C9_ActiveImpliesInstalled ==
    \A l \in RecordLists : \A i \in 1..Len(l) : l[i].Active => l[i].Installed

\* C10: every list returned by a catalog fetch, and the model's version list,
\* holds at most one record marked Active.
C10_AtMostOneActive ==
    \A l \in RecordLists : Cardinality({i \in 1..Len(l) : l[i].Active}) <= 1

----------------------------------------------------------------------------
(* Properties of the catalog fetch, stated over the list recorded in out *)

Fetched == out.op = "FetchGoVersions" /\ out.result.kind = "VersionsMsg"

\* The versions of the catalog's releases ("go" stripped).
Listed == {TrimPrefix(remote[i].Version, GoPrefix) : i \in 1..Len(remote)}

\* The first component, among those both versions have, in which they differ
\* as integers; 0 when there is none.
FirstDifference(a, b) ==
    LET x == Nums(a)
        y == Nums(b)
        D == {k \in 1..Len(x) : k <= Len(y) /\ x[k] # y[k]}
    IN  IF D = {} THEN 0 ELSE CHOOSE k \in D : \A j \in D : k <= j

\* C6: on well-formed version strings the sort comparator is irreflexive,
\* total and transitive, and agrees with integer comparison of the first
\* component that differs; the list FetchGoVersions returns holds every
\* release once, each record before every record the comparator puts it
\* before, so that 1.21.3 comes first, then 1.21, then 1.9.9.
C6_SortedDescending ==
    (Fetched /\ \A v \in Listed : WellFormed(v)) =>
        LET vs == out.result.versions
        IN  /\ \A a \in Listed : ~SortLess(a, a)
            /\ \A a, b \in Listed : a # b => (SortLess(a, b) # SortLess(b, a))
            /\ \A a, b, c \in Listed : (SortLess(a, b) /\ SortLess(b, c)) => SortLess(a, c)
            /\ \A a, b \in Listed :
                  LET k == FirstDifference(a, b)
                  IN  k # 0 => (SortLess(a, b) <=> Nums(a)[k] > Nums(b)[k])
            /\ Len(vs) = Len(remote)
            /\ {vs[i].Version : i \in 1..Len(vs)} = Listed
            /\ \A i, j \in 1..Len(vs) : i < j => SortLess(vs[i].Version, vs[j].Version)
            /\ Listed = {V1_21_3, V1_21, V1_9_9} =>
                  [i \in 1..Len(vs) |-> vs[i].Version] = <<V1_21_3, V1_21, V1_9_9>>

C6_Witness ==
    /\ Fetched
    /\ [i \in 1..Len(remote) |-> remote[i].Version] =
           <<GoPrefix \o V1_9_9, GoPrefix \o V1_21_3, GoPrefix \o V1_21>>
    /\ [i \in 1..Len(out.result.versions) |-> out.result.versions[i].Version] =
           <<V1_21_3, V1_21, V1_9_9>>

\* The directory go<version> is in the versions root and holds bin/<goBinary>.
BinaryOnDisk(version) ==
    LET name == GoPrefix \o version
    IN  name \in DOMAIN dirs /\ dirs[name].bin /\ goBinary \in dirs[name].files

\* C7: a record of the fetched list is marked Installed exactly when the
\* versions root holds go<version> with bin/<goBinary> in it, and then its
\* Path is that directory; a directory without the binary leaves the record
\* not Installed, with no Path.
C7_InstalledIffBinaryOnDisk ==
    Fetched =>
        \A i \in 1..Len(out.result.versions) :
            LET r == out.result.versions[i]
            IN  /\ r.Installed <=> BinaryOnDisk(r.Version)
                /\ r.Path = IF r.Installed THEN VersionPath(GoPrefix \o r.Version) ELSE <<>>

C7_Witness ==
    /\ Fetched
    /\ \E i \in 1..Len(out.result.versions) :
          /\ out.result.versions[i].Installed
          /\ out.result.versions[i].Path = VersionPath(GoPrefix \o out.result.versions[i].Version)
    /\ \E i \in 1..Len(out.result.versions) :
          /\ ~out.result.versions[i].Installed
          /\ GoPrefix \o out.result.versions[i].Version \in DOMAIN dirs

----------------------------------------------------------------------------
(* Properties of the command line *)

\* C8: a version directory without bin/<goBinary> is not counted as
\* installed: `use` does not resolve to it, SwitchVersion does not activate it
\* and `list` does not show it.
C8_LackingBinaryNotCounted ==
    /\ (out.op = "UseVersion" /\ out.resolved.kind = "ok") =>
            BinaryOnDisk(out.resolved.version.Version)
    /\ (out.op = "UseVersion" /\ out.result.kind = "SwitchCompletedMsg") =>
            BinaryOnDisk(marker)
    /\ out.op = "ListVersions" =>
            \A i \in 1..Len(out.shown) : BinaryOnDisk(out.shown[i].version)

----------------------------------------------------------------------------
(* Properties of the activator, over the operations run one after another *)

\* The step is a SwitchVersion that returned SwitchCompletedMsg.
SwitchCompleted ==
    out'.op = "SwitchVersion" /\ out'.result.kind = "SwitchCompletedMsg"

\* C11: the active_version marker is created or overwritten only by a
\* SwitchVersion that returns SwitchCompletedMsg, after which it holds exactly
\* the version switched to; a catalog fetch, an install, a delete, a list and a
\* failed switch leave it unchanged.
C11_MarkerWrittenOnlyByCompletedSwitch ==
    [][/\ marker' # marker => SwitchCompleted
       /\ SwitchCompleted => marker' = out'.version.Version]_vars

\* The last operation is a catalog fetch that returned its list.
FetchedList == out.op = "FetchGoVersions" /\ out.result.kind = "VersionsMsg"

\* The operation before the last one is a SwitchVersion that completed.
AfterCompletedSwitch ==
    out.last.op = "SwitchVersion" /\ out.last.kind = "SwitchCompletedMsg"

\* C12: the catalog fetch that follows a completed switch to V marks the
\* record of version V Active and no other record, whatever the go on PATH
\* reports; a record whose version is not the marker's content is Active only
\* when there is no marker, and then it is the version the go on PATH reports.
C12_MarkerRoundTrip ==
    FetchedList =>
        \A i \in 1..Len(out.result.versions) :
            LET v == out.result.versions[i]
            IN  /\ AfterCompletedSwitch => (v.Active <=> v.Version = out.last.Version)
                /\ (v.Active /\ v.Version # marker) => (marker = NoFile /\ v.Version = ambient)

\* A fetch right after a completed switch to 1.12.17 while the go on PATH
\* reports 1.21.5: the list has a record for both and marks 1.12.17.
C12_Witness ==
    /\ FetchedList
    /\ AfterCompletedSwitch
    /\ out.last.Version = V1_12_17
    /\ ambient = V1_21_5
    /\ \E i, j \in 1..Len(out.result.versions) :
          /\ out.result.versions[i].Version = V1_12_17
          /\ out.result.versions[i].Active
          /\ out.result.versions[j].Version = ambient

\* C13: a SwitchVersion of the version the previous operation, a completed
\* SwitchVersion, switched to returns SwitchCompletedMsg again when the file
\* system refuses nothing, and leaves the shim directory and the marker as
\* the first run left them.
C13_SwitchIdempotent ==
    [][(/\ out.op = "SwitchVersion"
        /\ out.result.kind = "SwitchCompletedMsg"
        /\ out'.op = "SwitchVersion"
        /\ out'.version.Version = out.version.Version
        /\ out'.fault.kind = "none") =>
           (/\ out'.result.kind = "SwitchCompletedMsg"
            /\ out'.result.Version = out.version.Version
            /\ shims' = shims
            /\ marker' = marker)]_vars

\* The second of two completed switches in a row to 1.21.5, after a switch to
\* 1.12.17 has left a shim for godoc behind.
C13_Witness ==
    /\ out.op = "SwitchVersion"
    /\ out.result.kind = "SwitchCompletedMsg"
    /\ AfterCompletedSwitch
    /\ out.last.Version = out.version.Version
    /\ out.version.Version = V1_21_5
    /\ GodocCmd \in DOMAIN shims

\* C14: a SwitchVersion that returns an error (a shim could not be written or
\* made executable, or the marker could not be written) leaves no partial
\* update behind: the shim directory and the marker are as they were before.
C14_FailedSwitchChangesNothing ==
    [][(out'.op = "SwitchVersion" /\ out'.result.kind = "ErrMsg") =>
           (shims' = shims /\ marker' = marker)]_vars

----------------------------------------------------------------------------
(* Properties of the installer, over the operations run one after another *)

\* C15: a download that transfers zero bytes makes DownloadAndInstall return
\* an error although the transport reported none; nothing is extracted (the
\* versions root only loses the previous directory of that version) and the
\* version is not installed afterwards.
C15_EmptyDownloadFails ==
    [][(out'.op = "DownloadAndInstall" /\ out'.fault.kind = "empty") =>
           LET versionDir == GoPrefix \o out'.version.Version
           IN  /\ out'.result.kind = "ErrMsg"
               /\ dirs' = [n \in DOMAIN dirs \ {versionDir} |-> dirs[n]]
               /\ ~HasBinaryIn(dirs', versionDir)]_vars

\* An install of 1.21.5 that transferred zero bytes: it returned the error and
\* left the empty archive in downloads and no directory of that version.
C15_Witness ==
    /\ out.op = "DownloadAndInstall"
    /\ out.fault.kind = "empty"
    /\ out.version.Version = V1_21_5
    /\ out.result = [kind |-> "ErrMsg", err |-> "empty"]
    /\ out.version.Filename \in downloads
    /\ ~BinaryOnDisk(V1_21_5)

\* C16: a DownloadAndInstall of V that fails nowhere, run on what a failed
\* DownloadAndInstall of V has left behind (a directory of V, an archive in
\* downloads, extraction output in the versions root), ends in the state of an
\* install from a clean home: DownloadCompleteMsg, the complete release at
\* the canonical path, no extraction output left, the archive removed and
\* every other directory as it was.
C16_InstallIdempotent ==
    [][(/\ out.op = "DownloadAndInstall"
        /\ out.result.kind = "ErrMsg"
        /\ out'.op = "DownloadAndInstall"
        /\ out'.version.Version = out.version.Version
        /\ out'.fault.kind = "none") =>
           LET versionDir == GoPrefix \o out.version.Version
           IN  /\ out'.result = [kind |-> "DownloadCompleteMsg",
                                 Version |-> out.version.Version,
                                 Path |-> VersionPath(versionDir)]
               /\ DOMAIN dirs' = (DOMAIN dirs \ {ArchiveDir}) \cup {versionDir}
               /\ dirs'[versionDir] = FullDir(ArchiveBin(out.version.Version))
               /\ \A n \in DOMAIN dirs' \ {versionDir} : dirs'[n] = dirs[n]
               /\ out'.version.Filename \notin downloads']_vars

\* The versions a catalog fetch on this disk reports as Installed.
ReportedInstalled == {r.Version : r \in {v \in Records : v.Installed}}

\* C17: a version that a catalog fetch did not report as Installed is reported
\* as Installed after a step only when that step is a DownloadAndInstall of
\* this version that returned DownloadCompleteMsg; an install that returned an
\* error leaves nothing behind that a fetch reports as Installed.
C17_InstalledOnlyByCompletedInstall ==
    [][\A v \in ReportedInstalled' \ ReportedInstalled :
           /\ out'.op = "DownloadAndInstall"
           /\ out'.version.Version = v
           /\ out'.result.kind = "DownloadCompleteMsg"]_vars

\* C18: a DownloadAndInstall of V, whether it completes or fails, leaves
\* every other version that was installed before it installed, in the same
\* directory with the same content: the normalisation step never renames the
\* directory of an installed version.
C18_OtherVersionsUntouched ==
    [][out'.op = "DownloadAndInstall" =>
           \A w \in ReportedInstalled \ {out'.version.Version} :
               /\ w \in ReportedInstalled'
               /\ dirs'[GoPrefix \o w] = dirs[GoPrefix \o w]]_vars

\* C19: a DownloadAndInstall in which no step up to the verification fails
\* returns DownloadCompleteMsg with the version and the path of its directory,
\* which holds the binary, and has deleted the archive from downloads; when
\* only the deletion of the archive fails it returns DownloadCompleteMsg all
\* the same.
C19_CompletedInstallCleansUp ==
    out.op = "DownloadAndInstall" =>
        /\ out.fault.kind \in {"none", "rmarchive"} =>
               out.result.kind = "DownloadCompleteMsg"
        /\ out.result.kind = "DownloadCompleteMsg" =>
               /\ out.result.Version = out.version.Version
               /\ out.result.Path = VersionPath(GoPrefix \o out.version.Version)
               /\ BinaryOnDisk(out.version.Version)
               /\ out.fault.kind # "rmarchive" => out.version.Filename \notin downloads

\* An install of 1.12.17 whose archive could not be deleted: it completed
\* and the archive is still in downloads.
C19_Witness ==
    /\ out.op = "DownloadAndInstall"
    /\ out.fault.kind = "rmarchive"
    /\ out.version.Version = V1_12_17
    /\ out.result.kind = "DownloadCompleteMsg"
    /\ out.version.Filename \in downloads
    /\ BinaryOnDisk(V1_12_17)

----------------------------------------------------------------------------
(* Properties of the catalog fetch under failures *)

\* What went wrong for the fetch, for the outcomes that are failures: the
\* network, the status of the response, its body, the home directory or the
\* creation of the versions root.
FetchFailures == {"down", "status", "read", "garbage", "home", "mkdir"}

\* C20: FetchGoVersions returns either one error or the complete list, with
\* one record for every release of the catalog that has a file for the host,
\* and it returns an error when the network fails, when the response has a
\* status other than 200, when the body cannot be parsed, when the home
\* directory cannot be resolved and when the versions root cannot be created.
C20_FetchAllOrError ==
    out.op = "FetchGoVersions" =>
        /\ out.result.kind \in {"VersionsMsg", "ErrMsg"}
        /\ out.result.kind = "VersionsMsg" =>
               /\ Len(out.result.versions) = Len(remote)
               /\ {out.result.versions[i].Version : i \in 1..Len(out.result.versions)} =
                      {TrimPrefix(remote[i].Version, GoPrefix) : i \in 1..Len(remote)}
        /\ out.net \in FetchFailures => out.result.kind = "ErrMsg"

----------------------------------------------------------------------------
(* Further properties of the terminal session *)

\* C21: no list returned by a catalog fetch, and so no list the model holds,
\* has two records with the same version string, also when the catalog lists
\* two releases whose versions coincide once the "go" prefix is stripped.
C21_NoDuplicateVersions ==
    \A l \in RecordLists :
        \A i, j \in 1..Len(l) : l[i].Version = l[j].Version => i = j

\* The commands of kind cmd that Update has dispatched and whose message it
\* has not yet received.
InFlight(cmd) == {i \in 1..Len(tasks) : tasks[i].cmd = cmd}

\* C22: among the commands whose message Update has not yet received there
\* are no two installs of one version, no two switches, and no delete of a
\* version together with an install or a switch of that version.
C22_NoOverlappingOperations ==
    /\ \A i, j \in InFlight("DownloadAndInstall") :
           tasks[i].arg.Version = tasks[j].arg.Version => i = j
    /\ Cardinality(InFlight("SwitchVersion")) <= 1
    /\ \A i \in InFlight("DeleteVersion") :
           \A j \in InFlight("DownloadAndInstall") \cup InFlight("SwitchVersion") :
               tasks[i].arg.Version # tasks[j].arg.Version

----------------------------------------------------------------------------
(* Properties of `govm install` and its worker goroutine *)

\* The worker has its message and is blocked in the send.
WorkerSends == Len(tasks) = 1 /\ tasks[1].done

\* InstallVersion has returned.
Returned == out.op = "InstallVersion" /\ out.pc = "returned"

\* What holds in every state of a run of InstallVersion that started a worker.
OneCompletion ==
    (out.op = "InstallVersion" /\ out.resolved.kind = "ok") =>
        /\ Len(tasks) <= 1
        /\ out.pc = "loop" =>
               /\ Len(tasks) = 1
               /\ out.received = <<>> /\ out.printed = <<>>
               /\ tasks[1].done => tasks[1].msg.kind \in {"DownloadCompleteMsg", "ErrMsg"}
        /\ out.pc = "returned" =>
               /\ tasks = <<>>
               /\ \/ out.received = <<"DownloadCompleteMsg">> /\ out.printed = <<"success">>
                  \/ out.received = <<"ErrMsg">> /\ out.printed = <<"failure">>

\* C23: one call of InstallVersion that starts the worker receives exactly
\* one message from it, on done or on errCh, returns on receiving it and has
\* then printed exactly one outcome, success or failure; a tick never makes
\* the loop return, and a worker blocked in its send is always received from.
C23_ExactlyOneCompletion ==
    /\ []OneCompletion
    /\ (WorkerSends ~> Returned)

\* A run that printed the success after the spinner had stepped.
C23_Witness ==
    /\ out.op = "InstallVersion"
    /\ out.pc = "returned"
    /\ out.spinIdx > 0
    /\ out.received = <<"DownloadCompleteMsg">>
    /\ out.printed = <<"success">>

\* Update receives the message of command i in this step.
Delivered(i) ==
    /\ Running /\ tasks[i].done
    /\ tasks' = RemoveAt(tasks, i)
    /\ ui'.state = "running"

\* C24: when Update receives an ErrMsg the program keeps running with Loading
\* false, and when it receives the result of an operation that succeeded,
\* also after an earlier ErrMsg, the view shows the tabs with that result and
\* not the error.
C24_RecoversFromError ==
    [][\A i \in 1..Len(tasks) :
          Delivered(i) =>
              /\ ~ui'.Loading
              /\ tasks[i].msg.kind # "ErrMsg" => View(ui').screen = "tabs"]_vars

----------------------------------------------------------------------------
(* Further properties of the command line *)

\* The command ended on a failure of the network or of the file system.
HardFailure ==
    /\ out.op \in {"InstallVersion", "UseVersion"}
    /\ \/ out.result.kind = "ErrMsg"
       \/ out.resolved.kind = "err" /\ out.resolved.err \in {"fetch", "readdir"}

\* The command reported that no version matches.
NotFoundReport ==
    /\ out.op \in {"InstallVersion", "UseVersion"}
    /\ out.resolved.kind = "err" /\ out.resolved.err = "notfound"

\* C25: a command of the command line that ends on a failure of the network
\* or of the file system makes the process exit with a status other than 0;
\* one that reports that no version matches exits with status 0.
C25_HardFailureExitsNonZero ==
    /\ HardFailure => ExitStatus(out) # 0
    /\ NotFoundReport => ExitStatus(out) = 0

----------------------------------------------------------------------------
(* Properties of the walk through the commands *)

\* The record a catalog fetch on the present disk gives for version v.
FreshRecord(v) == CHOOSE r \in Records : r.Version = v

\* The version's directory is under the versions root.
OnDisk(v) == DirExists(GoPrefix \o v)

----------------------------------------------------------------------------
(* Properties of the remover *)

\* Everything under ~/.govm.
Disk == <<versionsDir, dirs, downloads, shims, marker>>

\* C27: DeleteVersion on a record not marked Installed returns the
\* not-installed error, also when the record is marked Active; on a record
\* marked Installed and Active it returns the active-version error; in both
\* cases the disk is left as it was.  On a record Installed and not Active it
\* removes the record's directory and no other, and returns DeleteCompleteMsg
\* with the record's version string.
C27_DeletePreconditionsInOrder ==
    [][out'.op = "DeleteVersion" =>
          LET version == out'.version
          IN  IF ~version.Installed
              THEN /\ out'.result = [kind |-> "ErrMsg", err |-> "notinstalled"]
                   /\ UNCHANGED Disk
              ELSE IF version.Active
              THEN /\ out'.result = [kind |-> "ErrMsg", err |-> "active"]
                   /\ UNCHANGED Disk
              ELSE /\ out'.result = [kind |-> "DeleteCompleteMsg",
                                     Version |-> version.Version]
                   /\ dirs' = RemoveDir(dirs, GoPrefix \o version.Version)
                   /\ (GoPrefix \o version.Version) \in DOMAIN dirs
                   /\ UNCHANGED <<versionsDir, downloads, shims, marker>>]_vars

\* DeleteVersion was handed a record marked Active and not Installed, and
\* answered that the version is not installed.
C27_Witness ==
    /\ out.op = "DeleteVersion"
    /\ out.version.Active /\ ~out.version.Installed
    /\ out.result = [kind |-> "ErrMsg", err |-> "notinstalled"]

----------------------------------------------------------------------------
(* Further properties of the catalog fetch *)

\* C28: the sort comparator puts one of any two distinct version strings of
\* a catalog before the other, and never both, whether the strings are
\* well-formed or not; when no numeric component decides, the greater string
\* comes first.
C28_ComparatorTotal ==
    Fetched =>
        \A a, b \in Listed :
            a # b =>
                /\ SortLess(a, b) # SortLess(b, a)
                /\ (\A k \in 1..3 :
                        k <= Len(Split(a)) /\ k <= Len(Split(b))
                            => Atoi(Split(a)[k]) = Atoi(Split(b)[k]))
                       => (SortLess(a, b) <=> StrLess(b, a))

\* The file of a release that FetchGoVersions is to take: the first one
\* whose OS and architecture are the host's.
HostFile(release) ==
    release.Files[CHOOSE k \in HostFiles(release) : \A j \in HostFiles(release) : k <= j]

\* C29: the records FetchGoVersions returns correspond one to one to the
\* catalog's releases that have a file whose OS and architecture both equal
\* the host's: each record carries the version of its release, the name of
\* the first such file of that release and the download URL made from that
\* name; a release without such a file has no record, no release has two.
C29_OneRecordPerHostRelease ==
    Fetched =>
        LET vs == out.result.versions
            hosted == {i \in 1..Len(remote) : HostFiles(remote[i]) # {}}
        IN  \E f \in [1..Len(vs) -> hosted] :
                /\ \A r, q \in 1..Len(vs) : f[r] = f[q] => r = q
                /\ {f[r] : r \in 1..Len(vs)} = hosted
                /\ \A r \in 1..Len(vs) :
                       /\ vs[r].Version = TrimPrefix(remote[f[r]].Version, GoPrefix)
                       /\ vs[r].Filename = HostFile(remote[f[r]]).Filename
                       /\ vs[r].URL = <<"https://go.dev/dl/">> \o vs[r].Filename

\* A fetch of a catalog of two releases, one with no file for the host and
\* one with two, has returned one record.
C29_Witness ==
    /\ Fetched
    /\ Len(out.result.versions) = 1
    /\ \E i, j \in 1..Len(remote) :
           HostFiles(remote[i]) = {} /\ Cardinality(HostFiles(remote[j])) = 2

\* The extension of the archives the host unpacks.
ArchiveExtension == IF GOOS = "windows" THEN Zip ELSE TarGz

----------------------------------------------------------------------------
(* Further properties of the activator *)

\* C31: a SwitchVersion whose record points at a directory without bin/, or
\* at no directory any more, returns an error and leaves the shims and the
\* active_version marker as they were.
C31_MissingBinDirChangesNothing ==
    [][\A i \in 1..Len(tasks) :
          (Ran(i, "SwitchVersion") /\ ~BinDirExists(tasks[i].arg.Path)) =>
              /\ tasks'[i].msg.kind = "ErrMsg"
              /\ UNCHANGED <<shims, marker>>]_vars

\* A switch to a version whose directory a delete has removed meanwhile has
\* failed for want of the bin directory, with shims of another version in
\* place.
C31_Witness ==
    \E i \in 1..Len(tasks) :
        /\ tasks[i].cmd = "SwitchVersion" /\ tasks[i].done
        /\ tasks[i].msg = [kind |-> "ErrMsg", err |-> "bindir"]
        /\ ~BinDirExists(tasks[i].arg.Path)
        /\ DOMAIN shims # {}

\* An entry's file name without a trailing ".exe".
StripExe(entry) ==
    IF HasSuffix(entry, Exe) THEN SubSeq(entry, 1, Len(entry) - Len(Exe)) ELSE entry

\* C32: after a completed SwitchVersion every entry of the target's bin
\* directory has a shim named by the entry's file name without a trailing
\* ".exe", whose target is the path of that entry; two entries never share a
\* shim.
C32_OneShimPerEntry ==
    (out.op = "SwitchVersion" /\ out.result.kind = "SwitchCompletedMsg") =>
        LET entries == dirs[PathName(out.version.Path)].files
        IN  /\ \A e \in entries :
                  /\ StripExe(e) \in DOMAIN shims
                  /\ shims[StripExe(e)] = out.version.Path \o <<"bin", e>>
            /\ \A e, d \in entries : e # d => StripExe(e) # StripExe(d)

----------------------------------------------------------------------------
(* Properties of the model's version list *)

\* The messages that report the end of an install, a switch or a delete.
CompletionMessages ==
    {"DownloadCompleteMsg", "SwitchCompletedMsg", "DeleteCompleteMsg", "ErrMsg"}

\* C33: when Update has applied a DownloadCompleteMsg, a SwitchCompletedMsg,
\* a DeleteCompleteMsg or an ErrMsg, every record of the model's list has the
\* Installed and Active flags that FetchGoVersions, run on the disk of that
\* moment, gives the record in the same place of its list.
C33_FlagsEqualFreshFetch ==
    [][\A i \in 1..Len(tasks) :
          (Delivered(i) /\ tasks[i].msg.kind \in CompletionMessages) =>
              LET fresh == FetchGoVersions("ok").versions
              IN  \A k \in 1..Len(ui'.Versions) :
                      /\ ui'.Versions[k].Version = fresh[k].Version
                      /\ ui'.Versions[k].Installed = fresh[k].Installed
                      /\ ui'.Versions[k].Active = fresh[k].Active]_vars

\* C34: no key i, u or d makes Update panic, whatever the model holds when
\* the key arrives: the first list not yet received, or an empty list with no
\* item selected.
C34_KeysNeverCrash == ui.state # "crashed"

----------------------------------------------------------------------------
(* Properties of the delete confirmation *)

\* Update returned in this step and the program runs on.
Updated == Running /\ ui'.state = "running" /\ Len(tasks') >= Len(tasks)

\* Update dispatched a DeleteVersion in this step.
DispatchedDelete ==
    /\ Updated
    /\ Len(tasks') > Len(tasks)
    /\ tasks'[Len(tasks')].cmd = "DeleteVersion"

\* C35: a DeleteVersion is dispatched only while ConfirmingDelete is set; the
\* step clears ConfirmingDelete and dispatches that one command, for the
\* version m.DeleteVersion names.  ConfirmingDelete becomes set only in a step
\* that dispatches nothing and names a version whose record in the list is
\* Installed and not Active.  A step that clears ConfirmingDelete without
\* dispatching a delete dispatches nothing and forgets the version.
C35_DeleteNeedsConfirmation ==
    [][/\ DispatchedDelete =>
              /\ ui.ConfirmingDelete /\ ~ui'.ConfirmingDelete
              /\ Len(tasks') = Len(tasks) + 1
              /\ SubSeq(tasks', 1, Len(tasks)) = tasks
              /\ tasks'[Len(tasks')].arg.Version = ui.DeleteVersion
       /\ (Updated /\ ~ui.ConfirmingDelete /\ ui'.ConfirmingDelete) =>
              /\ tasks' = tasks
              /\ \E k \in 1..Len(ui.Versions) :
                     /\ ui.Versions[k].Version = ui'.DeleteVersion
                     /\ ui.Versions[k].Installed /\ ~ui.Versions[k].Active
       /\ (Updated /\ ui.ConfirmingDelete /\ ~ui'.ConfirmingDelete
              /\ ~DispatchedDelete) =>
              tasks' = tasks /\ ui'.DeleteVersion = <<>>]_vars

\* A confirmed delete has been dispatched for the version the prompt named
\* and waits to run; no confirmation is pending any more.
C35_Witness ==
    /\ Running /\ ~ui.ConfirmingDelete
    /\ \E i \in 1..Len(tasks) :
           /\ tasks[i].cmd = "DeleteVersion" /\ ~tasks[i].done
           /\ tasks[i].arg.Version = ui.DeleteVersion
           /\ tasks[i].arg.Installed

----------------------------------------------------------------------------
(* The two orderings of versions *)

\* The position of the first record of the sorted catalog whose version
\* starts with prefix; 0 when there is none.
RECURSIVE FirstWithPrefix(_, _, _)
FirstWithPrefix(versions, prefix, i) ==
    IF i > Len(versions) THEN 0
    ELSE IF HasPrefix(versions[i].Version, prefix) THEN i
    ELSE FirstWithPrefix(versions, prefix, i + 1)

\* C36: for any two versions a and b of a catalog the sort comparator puts a
\* before b exactly when compareVersions(a, b) > 0; and the record
\* findMatchingVersion returns for a token that no version equals is the
\* first record of the sorted catalog whose version starts with token + ".".
C36_OrderingsAgree ==
    (out.op = "findMatchingVersion" /\ out.obtained) =>
        LET sorted == FetchGoVersions("ok").versions
            k == FirstWithPrefix(sorted, out.token \o <<".">>, 1)
        IN  /\ \A a, b \in Candidates : SortLess(a, b) <=> compareVersions(a, b) > 0
            /\ (out.token \notin Candidates /\ out.result.kind = "ok") =>
                   k # 0 /\ out.result.version = sorted[k]

====
